---- MODULE Spec2Model ----
(***************************************************************************)
(* Model of the caching layer of pantry-server:                            *)
(*   app/core/cache.py          TTLCache, the process-wide singleton       *)
(*   app/routers/pantry.py      pantry read and write handlers             *)
(*   app/services/pantry_service.py     the data-store calls they await    *)
(*   app/services/household_service.py  join and leave                     *)
(*   app/ai/retriever_cache.py  RetrieverCache                             *)
(*   app/ai/retriver.py         retrieve_pantry_items                      *)
(* Time is in whole seconds.  A Python value is a record: None is          *)
(* [none |-> TRUE], a list is [items |-> S].  A dict is a function whose   *)
(* DOMAIN is its set of keys.                                              *)
(***************************************************************************)
EXTENDS Integers, Sequences, FiniteSets, TLC

VARIABLES
    now,        \* time.time(), in seconds
    ticks,      \* how many times the clock has advanced
    cache,      \* TTLCache._cache : key -> <<value, expiry_time>>
    lastSet,    \* history: key -> the latest set(key, ...) not yet deleted or cleared
    last,       \* history: the latest TTLCache operation and what it returned
    pantry_items,       \* data store: item id -> [household_id, owner_id, quantity]
    household_members,  \* data store: the set of <<user_id, household_id>> rows
    pantry_embeddings,  \* data store: the pantry item ids that have an embedding row
    reqs,       \* the requests in flight: where each is, its arguments and locals
    finished,   \* history: the request that returned last, and what it did
    seq,        \* history: how many pantry mutations have been committed
    acked,      \* history: cache key -> the latest commit a successful write returned for
    entryVer,   \* history: cache key -> the commit count when the cached listing was fetched
    households,         \* data store: household id -> [invite_code, is_personal]
    hreq,       \* the join or leave request in progress, or the one that ended last
    moves,      \* how many join and leave requests have been started
    retriever_store,    \* RetrieverCache._store : key -> <<documents, serialized, fetched_at, household_id>>
    storeVer,   \* history: retriever key -> the commit count when its entry was stored
    retrieved,  \* history: the latest retrieve_pantry_items call and what it returned
    calls,      \* how many times retrieve_pantry_items has been called
    pantry_state,       \* RetrieverCache._pantry_state : household id -> version token
    rcLast,     \* history: the latest RetrieverCache operation and what it returned
    rcSets,     \* history: <<household, query, k>> -> the latest set not invalidated since
    rcInvalidated,      \* history: household invalidated and not set since -> entries removed
    rcOps,      \* how many RetrieverCache operations have been called
    drawn,      \* the two argument triples _make_key is applied to, and their keys
    wrapped,    \* the calls of the functions wrapped by cached(), and what they did
    creq        \* the create_household requests: where each is, and how it ended

cacheVars == <<now, ticks, cache, lastSet, last>>

storeVars == <<pantry_items, household_members, pantry_embeddings>>

reqVars == <<reqs, finished, seq, acked, entryVer>>

houseVars == <<households, hreq, moves>>

rcVars == <<pantry_state, rcLast, rcSets, rcInvalidated, rcOps, drawn, wrapped,
          creq>>

aiVars == <<retriever_store, storeVer, retrieved, calls, rcVars>>

vars == <<now, ticks, cache, lastSet, last, pantry_items, household_members,
          pantry_embeddings, reqs, finished, seq, acked, entryVer,
          households, hreq, moves, retriever_store, storeVer, retrieved, calls,
          pantry_state, rcLast, rcSets, rcInvalidated, rcOps, drawn, wrapped,
          creq>>

----------------------------------------------------------------------------
(* Bounds of the model *)

MaxTicks == 2

MaxReqs == 2

MaxItems == 2

MaxHandlerTicks == 1

MaxMoves == 1

MaxRetrievals == 2

----------------------------------------------------------------------------
(* Python values and dicts *)

None == [none |-> TRUE]

ListValue(S) == [items |-> S]

EmptyDict == [k \in {} |-> None]

DictPut(d, key, entry) ==
    [k \in (DOMAIN d) \cup {key} |-> IF k = key THEN entry ELSE d[k]]

DictDel(d, key) == [k \in (DOMAIN d) \ {key} |-> d[k]]

\* An optional integer argument: {} is "not given" (Python None), {n} is n.
NotGiven == {}

Given(n) == {n}

ArgValue(arg) == CHOOSE n \in arg : TRUE

----------------------------------------------------------------------------
(* app/core/cache.py : TTLCache *)

default_ttl_seconds == 300

\* get: the value returned and the dict afterwards (an expired entry is deleted)
TTLCache_get_EvictAtExpiry(c, key, t) ==
    IF key \notin DOMAIN c
    THEN [value |-> None, cache |-> c]
    ELSE IF t >= c[key][2]
         THEN [value |-> None, cache |-> DictDel(c, key)]
         ELSE [value |-> c[key][1], cache |-> c]

TTLCache_get(c, key, t) ==
    IF key \notin DOMAIN c
    THEN [value |-> None, cache |-> c]
    ELSE LET value == c[key][1]
             expiry_time == c[key][2]
         IN  IF t > expiry_time
             THEN [value |-> None, cache |-> DictDel(c, key)]
             ELSE [value |-> value, cache |-> c]

TTLCache_set_NoTtlAdded(c, key, value, ttl_seconds, t) ==
    DictPut(c, key, <<value, t>>)

TTLCache_set_KeepExisting(c, key, value, ttl_seconds, t) ==
    LET ttl == IF ttl_seconds # NotGiven THEN ArgValue(ttl_seconds)
               ELSE default_ttl_seconds
    IN  IF key \in DOMAIN c THEN c ELSE DictPut(c, key, <<value, t + ttl>>)

TTLCache_set(c, key, value, ttl_seconds, t) ==
    LET ttl == IF ttl_seconds # NotGiven THEN ArgValue(ttl_seconds)
               ELSE default_ttl_seconds
        expiry_time == t + ttl
    IN  DictPut(c, key, <<value, expiry_time>>)

TTLCache_delete_DropsAll(c, key) ==
    IF key \in DOMAIN c THEN EmptyDict ELSE c

TTLCache_delete(c, key) ==
    IF key \in DOMAIN c THEN DictDel(c, key) ELSE c

TTLCache_clear(c) == EmptyDict

TTLCache_evict_expired(c, t) ==
    LET current_time == t
        expired_keys == {key \in DOMAIN c : current_time > c[key][2]}
    IN  [k \in (DOMAIN c) \ expired_keys |-> c[k]]

\* size: the count returned and the dict afterwards
TTLCache_size_NoSweep(c, t) ==
    [n |-> Cardinality(DOMAIN c), cache |-> c]

TTLCache_size(c, t) ==
    LET swept == TTLCache_evict_expired(c, t)
    IN  [n |-> Cardinality(DOMAIN swept), cache |-> swept]

----------------------------------------------------------------------------
(* The cache on its own: any caller, any key, value and ttl *)

CacheKeys == {"k1", "k2"}

CacheValues == {ListValue({}), ListValue({1})}

TtlArgs == {NotGiven, Given(0), Given(1)}

CacheTickSteps == {1, 300}

NoOp == [op |-> "none", key |-> "", result |-> None, n |-> 0, evicted |-> 0, at |-> 0]

CacheInit ==
    /\ now = 0
    /\ ticks = 0
    /\ cache = EmptyDict
    /\ lastSet = EmptyDict
    /\ last = NoOp
    /\ pantry_items = EmptyDict
    /\ household_members = {}
    /\ pantry_embeddings = {}
    /\ reqs = <<>>
    /\ finished = <<>>
    /\ seq = 0
    /\ acked = EmptyDict
    /\ entryVer = EmptyDict
    /\ households = EmptyDict
    /\ hreq = <<>>
    /\ moves = 0
    /\ retriever_store = EmptyDict
    /\ storeVer = EmptyDict
    /\ retrieved = <<>>
    /\ calls = 0
    /\ pantry_state = EmptyDict
    /\ rcLast = <<>>
    /\ rcSets = EmptyDict
    /\ rcInvalidated = EmptyDict
    /\ rcOps = 0
    /\ creq = <<>>
    /\ drawn = <<>>
    /\ wrapped = <<>>

Tick(d) ==
    /\ ticks < MaxTicks
    /\ now' = now + d
    /\ ticks' = ticks + 1
    /\ UNCHANGED <<cache, lastSet, last, storeVars, reqVars, houseVars, aiVars>>

CacheGet(key) ==
    LET r == TTLCache_get(cache, key, now)
    IN  /\ cache' = r.cache
        /\ last' = [op |-> "get", key |-> key, result |-> r.value, n |-> 0,
                    evicted |-> Cardinality(DOMAIN cache) - Cardinality(DOMAIN r.cache),
                    at |-> now]
        /\ UNCHANGED <<now, ticks, lastSet, storeVars, reqVars,
                     houseVars, aiVars>>

CacheSet(key, value, ttl_seconds) ==
    /\ cache' = TTLCache_set(cache, key, value, ttl_seconds, now)
    /\ lastSet' = DictPut(lastSet, key,
                     [value |-> value, ttl |-> ttl_seconds, at |-> now,
                      over |-> key \in DOMAIN cache,
                      old |-> IF key \in DOMAIN cache THEN cache[key][1] ELSE None])
    /\ last' = [op |-> "set", key |-> key, result |-> None, n |-> 0,
                evicted |-> 0, at |-> now]
    /\ UNCHANGED <<now, ticks, storeVars, reqVars, houseVars, aiVars>>

CacheDelete(key) ==
    /\ cache' = TTLCache_delete(cache, key)
    /\ lastSet' = DictDel(lastSet, key)
    /\ last' = [op |-> "delete", key |-> key, result |-> None, n |-> 0,
                evicted |-> IF key \in DOMAIN cache THEN 1 ELSE 0, at |-> now]
    /\ UNCHANGED <<now, ticks, storeVars, reqVars, houseVars, aiVars>>

CacheClear ==
    /\ cache' = TTLCache_clear(cache)
    /\ lastSet' = EmptyDict
    /\ last' = [op |-> "clear", key |-> "", result |-> None, n |-> 0,
                evicted |-> 0, at |-> now]
    /\ UNCHANGED <<now, ticks, storeVars, reqVars, houseVars, aiVars>>

CacheSize ==
    LET r == TTLCache_size(cache, now)
    IN  /\ cache' = r.cache
        /\ last' = [op |-> "size", key |-> "", result |-> None, n |-> r.n,
                    evicted |-> Cardinality(DOMAIN cache) - Cardinality(DOMAIN r.cache),
                    at |-> now]
        /\ UNCHANGED <<now, ticks, lastSet, storeVars, reqVars,
                     houseVars, aiVars>>

CacheNext ==
    \/ \E d \in CacheTickSteps : Tick(d)
    \/ \E key \in CacheKeys : CacheGet(key)
    \/ \E key \in CacheKeys, value \in CacheValues, ttl_seconds \in TtlArgs :
           CacheSet(key, value, ttl_seconds)
    \/ \E key \in CacheKeys : CacheDelete(key)
    \/ CacheClear
    \/ CacheSize

SpecCache == CacheInit /\ [][CacheNext]_vars

----------------------------------------------------------------------------
(* Claims about TTLCache, checked under SpecCache *)

\* the ttl a set call uses: the argument, or the default when none is given
EffectiveTtl(ttl_seconds) ==
    IF ttl_seconds = NotGiven THEN default_ttl_seconds ELSE ArgValue(ttl_seconds)

ExpiryOf(s) == s.at + EffectiveTtl(s.ttl)

\* C7 as stated: after set(k, v, ttl=t) at time T, with k not written or
\* deleted since, get(k) at T' < T+t returns v, and get(k) at T' >= T+t
\* (T' = T+t included) returns absent and evicts the entry.
C7_ExpiryAtTtl ==
    (last.op = "get" /\ last.key \in DOMAIN lastSet) =>
        LET s == lastSet[last.key]
        IN  /\ last.at < ExpiryOf(s) => last.result = s.value
            /\ last.at >= ExpiryOf(s) =>
                   (last.result = None /\ last.key \notin DOMAIN cache)

\* C7 amended: get(k) returns v at every T' with T <= T' <= T+t (T' = T+t
\* included), and returns absent and evicts the entry at every T' > T+t.
C7_ExpiryAfterTtl ==
    (last.op = "get" /\ last.key \in DOMAIN lastSet) =>
        LET s == lastSet[last.key]
        IN  /\ last.at <= ExpiryOf(s) =>
                   (last.result = s.value /\ last.key \in DOMAIN cache)
            /\ last.at > ExpiryOf(s) =>
                   (last.result = None /\ last.key \notin DOMAIN cache)

\* a get exactly at T+t, with t > 0, that still returns the value
C7_Witness ==
    /\ last.op = "get"
    /\ last.key \in DOMAIN lastSet
    /\ EffectiveTtl(lastSet[last.key].ttl) > 0
    /\ last.at = ExpiryOf(lastSet[last.key])
    /\ last.result = lastSet[last.key].value

\* C8 as stated: every stored entry expires strictly after the time set
\* created it, whatever ttl was passed (the default and 0 included).
C8_ExpiryAfterCreation ==
    \A k \in DOMAIN cache : cache[k][2] > lastSet[k].at

\* C8 amended: every stored entry has expires_at = creation time + ttl, which
\* is strictly after the creation time for every ttl > 0 (the default
\* included) and equal to the creation time for ttl = 0.
C8_ExpiryIsCreationPlusTtl ==
    \A k \in DOMAIN cache :
        LET s == lastSet[k]
        IN  /\ cache[k][2] = s.at + EffectiveTtl(s.ttl)
            /\ EffectiveTtl(s.ttl) > 0 => cache[k][2] > s.at
            /\ EffectiveTtl(s.ttl) = 0 => cache[k][2] = s.at

\* one entry stored with the default ttl and one with ttl = 0
C8_Witness ==
    \E k1, k2 \in DOMAIN cache :
        /\ lastSet[k1].ttl = NotGiven
        /\ lastSet[k2].ttl = Given(0)

\* C9: size() returns the number of entries not expired at the call, the
\* entries get would return, and leaves no expired entry in the map.
C9_SizeCountsLiveEntries ==
    [][(last'.op = "size" /\ last' # last) =>
          LET live == {k \in DOMAIN cache : ~(now > cache[k][2])}
          IN  /\ last'.n = Cardinality(live)
              /\ live = {k \in DOMAIN cache :
                            TTLCache_get(cache, k, now).cache = cache}
              /\ DOMAIN cache' = live
              /\ \A k \in live : cache'[k] = cache[k]]_vars

\* Scenario A: an entry set with ttl=1 has aged past it, size() sweeps it, 0
C9_Witness ==
    /\ last.op = "size"
    /\ last.n = 0
    /\ last.evicted = 1
    /\ \E k \in DOMAIN lastSet :
           /\ lastSet[k].ttl = Given(1)
           /\ last.at > lastSet[k].at + 1

\* C10: set(k, v1); set(k, v2); get(k) before expiry returns v2, never v1,
\* and the entry expires when the second set says, whatever the first's ttl.
C10_OverwriteWins ==
    \A k \in DOMAIN lastSet :
        LET s == lastSet[k]
        IN  s.over =>
              /\ k \in DOMAIN cache => cache[k] = <<s.value, ExpiryOf(s)>>
              /\ (last.op = "get" /\ last.key = k /\ last.at <= ExpiryOf(s)) =>
                     /\ last.result = s.value
                     /\ s.old # s.value => last.result # s.old

\* a get after v1 was overwritten by a different v2
C10_Witness ==
    /\ last.op = "get"
    /\ last.key \in DOMAIN lastSet
    /\ lastSet[last.key].over
    /\ lastSet[last.key].old # lastSet[last.key].value
    /\ lastSet[last.key].old # None
    /\ last.result = lastSet[last.key].value

\* C11: delete(k) on an absent key leaves the whole map as it is; on a present
\* key it removes k and nothing else; a second delete(k) changes nothing more.
C11_DeleteIdempotent ==
    [][/\ \A k \in CacheKeys :
              LET once == TTLCache_delete(cache, k)
              IN  /\ k \notin DOMAIN cache => once = cache
                  /\ DOMAIN once = (DOMAIN cache) \ {k}
                  /\ \A j \in DOMAIN once : once[j] = cache[j]
                  /\ TTLCache_delete(once, k) = once
       /\ (last'.op = "delete" /\ last' # last) =>
              /\ DOMAIN cache' = (DOMAIN cache) \ {last'.key}
              /\ \A j \in DOMAIN cache' : cache'[j] = cache[j]
              /\ last'.evicted = 0 => cache' = cache]_vars

\* a delete of a key that was absent, with the other key cached and kept
C11_Witness ==
    /\ last.op = "delete"
    /\ last.evicted = 0
    /\ last.key \notin DOMAIN cache
    /\ DOMAIN cache = CacheKeys \ {last.key}

----------------------------------------------------------------------------
(* The data store (Supabase tables), as the services query it *)

Users == {"u1", "u2"}

ItemIds == 1..MaxItems

\* pantry_items rows as a select("*") returns them
Row(items, id) ==
    [id |-> id, household_id |-> items[id].household_id,
     owner_id |-> items[id].owner_id, quantity |-> items[id].quantity]

\* .select("*").eq("household_id", h)
select_household_items(items, household_id) ==
    {Row(items, id) : id \in {i \in DOMAIN items : items[i].household_id = household_id}}

\* .select("*").eq("household_id", h).eq("owner_id", u)
select_user_items(items, household_id, user_id) ==
    {Row(items, id) : id \in {i \in DOMAIN items :
                                 /\ items[i].household_id = household_id
                                 /\ items[i].owner_id = user_id}}

\* household_members .select("household_id").eq("user_id", u).limit(1)
get_current_household_id(user_id) ==
    LET rows == {m \in household_members : m[1] = user_id}
    IN  IF rows = {} THEN "" ELSE (CHOOSE m \in rows : TRUE)[2]

\* household_members .select("id").eq("user_id", u).eq("household_id", h)
is_member(user_id, household_id) == <<user_id, household_id>> \in household_members

FreeIds(items) == ItemIds \ DOMAIN items

\* the rows .upsert(rows) inserts: n new rows with fresh ids
upsert_items(items, n, household_id, user_id) ==
    LET new == {i \in FreeIds(items) :
                   Cardinality({j \in FreeIds(items) : j < i}) < n}
    IN  [i \in (DOMAIN items) \cup new |->
            IF i \in new
            THEN [household_id |-> household_id, owner_id |-> user_id, quantity |-> 1]
            ELSE items[i]]

\* .update(payload).eq("household_id", h).eq("owner_id", u): every row that matches
update_items(items, quantity, household_id, user_id) ==
    [i \in DOMAIN items |->
        IF items[i].household_id = household_id /\ items[i].owner_id = user_id
        THEN [items[i] EXCEPT !.quantity = quantity]
        ELSE items[i]]

\* .delete().eq("id", id).eq("household_id", h).eq("owner_id", u)
delete_items(items, item_id, household_id, user_id) ==
    [i \in (DOMAIN items) \ {j \in DOMAIN items :
                                /\ j = item_id
                                /\ items[j].household_id = household_id
                                /\ items[j].owner_id = user_id} |-> items[i]]

\* households .select(...).eq("invite_code", code).limit(1)
select_household_by_invite(table, code) ==
    {h \in DOMAIN table : table[h].invite_code = code}

\* household_members .select("household_id").eq("user_id", u).limit(1)
select_membership(members, user_id) == {m \in members : m[1] = user_id}

\* pantry_items .update({"household_id": new}).eq("household_id", old).eq("owner_id", u)
move_items(items, old_household_id, new_household_id, user_id) ==
    [i \in DOMAIN items |->
        IF items[i].household_id = old_household_id /\ items[i].owner_id = user_id
        THEN [items[i] EXCEPT !.household_id = new_household_id]
        ELSE items[i]]

\* the tables before any request: two group households and the personal one
\* of u2, both users in h1
InitialHouseholds ==
    [h \in {"h1", "h2", "h3"} |->
        [invite_code |-> CASE h = "h1" -> "AAAAAA" [] h = "h2" -> "BBBBBB"
                           [] OTHER -> "PPPPPP",
         is_personal |-> h = "h3",
         owner_id |-> IF h = "h3" THEN "u2" ELSE ""]]

InitialMembers == {<<"u1", "h1">>, <<"u2", "h1">>}

\* no join or leave request yet
NoMove ==
    [op |-> "none", user_id |-> "", pc |-> "idle", status |-> "", code |-> "",
     old |-> "", new |-> "", items_moved |-> 0, tries |-> 0, error |-> ""]

\* no retrieve_pantry_items call yet
NoRetrieval ==
    [household_key |-> "", query |-> "", k |-> 0, hit |-> FALSE,
     serialized |-> "", documents |-> <<>>, ver |-> 0, aver |-> 0]

\* no RetrieverCache operation yet
NoRcOp ==
    [op |-> "none", household_id |-> "", query |-> "", k |-> 0, hit |-> FALSE,
     serialized |-> "", documents |-> <<>>, changed |-> FALSE, removed |-> 0,
     trail |-> <<>>, at |-> 0]

----------------------------------------------------------------------------
(* app/routers/pantry.py : cache keys and helpers *)

PANTRY_LIST_TTL == 60

household_key(household_id) == "pantry:household:" \o household_id

user_key(household_id, user_id) ==
    "pantry:user:" \o household_id \o ":" \o user_id

invalidate_household_cache(c, household_id) ==
    TTLCache_delete(c, household_key(household_id))

invalidate_user_cache_WrongScope(c, household_id, user_id) ==
    TTLCache_delete(c, user_key(user_id, household_id))

invalidate_user_cache(c, household_id, user_id) ==
    TTLCache_delete(c, user_key(household_id, user_id))

get_cached_household_items(c, household_id, t) ==
    TTLCache_get(c, household_key(household_id), t)

set_cached_household_items_SkipsEmpty(c, household_id, items, t) ==
    IF items = ListValue({})
    THEN c
    ELSE TTLCache_set(c, household_key(household_id), items, Given(PANTRY_LIST_TTL), t)

set_cached_household_items(c, household_id, items, t) ==
    TTLCache_set(c, household_key(household_id), items, Given(PANTRY_LIST_TTL), t)

get_cached_user_items(c, household_id, user_id, t) ==
    TTLCache_get(c, user_key(household_id, user_id), t)

set_cached_user_items_KeepExisting(c, household_id, user_id, items, t) ==
    IF user_key(household_id, user_id) \in DOMAIN c
    THEN c
    ELSE TTLCache_set(c, user_key(household_id, user_id), items,
                      Given(PANTRY_LIST_TTL), t)

set_cached_user_items(c, household_id, user_id, items, t) ==
    TTLCache_set(c, user_key(household_id, user_id), items, Given(PANTRY_LIST_TTL), t)

----------------------------------------------------------------------------
(* Requests.  Each request is a coroutine on one event loop: what it does  *)
(* between two awaits is one step; the data-store call it awaits runs in a *)
(* worker thread and is a step of its own.                                 *)

Reqs == 1..MaxReqs

ReadOps == {"get_all", "get_my"}

WriteOps == {"add", "bulk", "update", "delete"}

Idle ==
    [op |-> "none", user_id |-> "", household_id |-> "", arg |-> 0, pc |-> "idle",
     status |-> "", items |-> None, dropped |-> 0,
     sver |-> 0, fver |-> 0, cver |-> 0, events |-> <<>>,
     status_code |-> 0, detail |-> ""]

\* raise HTTPException(status_code=..., detail=...)
HTTPException(q, status_code, detail) ==
    [q EXCEPT !.status_code = status_code, !.detail = detail]

\* a request that has returned: its slot, and the record kept of it
Gone == [Idle EXCEPT !.pc = "done"]

Returned(q, status, events, dropped) ==
    [q EXCEPT !.pc = "done", !.status = status, !.events = events,
              !.dropped = dropped, !.arg = 0, !.cver = 0,
              !.items = IF q.op \in ReadOps THEN q.items ELSE None]

\* the cache key a read handler uses
ReadKey(q) ==
    IF q.op = "get_all" THEN household_key(q.household_id)
    ELSE user_key(q.household_id, q.user_id)

\* the cache keys whose listings a write by (household, user) changes
WriteKeys(household_id, user_id) ==
    {household_key(household_id), user_key(household_id, user_id)}

HistoryGet(d, key) == IF key \in DOMAIN d THEN d[key] ELSE 0

\* entryVer follows the cache: only the keys that are cached have a version
TrimTo(d, c) == [k \in (DOMAIN d) \cap (DOMAIN c) |-> d[k]]

HandlerInit ==
    /\ now = 0
    /\ ticks = 0
    /\ cache = EmptyDict
    /\ lastSet = EmptyDict
    /\ last = NoOp
    /\ pantry_items = [i \in {1} |->
                          [household_id |-> "h1", owner_id |-> "u1", quantity |-> 1]]
    /\ household_members = InitialMembers
    /\ pantry_embeddings = {}
    /\ reqs = [r \in Reqs |-> Idle]
    /\ finished = Idle
    /\ seq = 0
    /\ acked = EmptyDict
    /\ entryVer = EmptyDict
    /\ households = InitialHouseholds
    /\ hreq = NoMove
    /\ moves = 0
    /\ retriever_store = EmptyDict
    /\ storeVer = EmptyDict
    /\ retrieved = NoRetrieval
    /\ calls = 0
    /\ pantry_state = EmptyDict
    /\ rcLast = NoRcOp
    /\ rcSets = EmptyDict
    /\ rcInvalidated = EmptyDict
    /\ rcOps = 0
    /\ creq = <<>>
    /\ drawn = <<>>
    /\ wrapped = <<>>

HandlerTick(d) ==
    /\ ticks < MaxHandlerTicks
    /\ now' = now + d
    /\ ticks' = ticks + 1
    /\ UNCHANGED <<cache, lastSet, last, storeVars, reqVars,
                 houseVars, aiVars>>

\* requests arrive in the order of their numbers
CanStart(r) ==
    /\ reqs[r].pc = "idle"
    /\ r > 1 => reqs[r - 1].pc # "idle"

\* request r goes on to its next await
Goes(r, q) ==
    /\ reqs' = [reqs EXCEPT ![r] = q]
    /\ UNCHANGED finished

\* request r returns to its caller, with a result ("ok") or an error
Returns(r, q, status, events, dropped) ==
    /\ reqs' = [reqs EXCEPT ![r] = Gone]
    /\ finished' = Returned(q, status, events, dropped)

\* get_all_pantry_items / get_my_pantry_items, up to the await of the service:
\* a hit returns the cached list, a miss goes on to query the data store
ReadStart(r, op, user_id) ==
    /\ CanStart(r)
    /\ get_current_household_id(user_id) # ""
    /\ LET household_id == get_current_household_id(user_id)
           q0 == [Idle EXCEPT !.op = op, !.user_id = user_id,
                              !.household_id = household_id]
           q == [q0 EXCEPT !.sver = HistoryGet(acked, ReadKey(q0))]
           got == IF op = "get_all"
                  THEN get_cached_household_items(cache, household_id, now)
                  ELSE get_cached_user_items(cache, household_id, user_id, now)
           cached_items == got.value
       IN  /\ cache' = got.cache
           /\ entryVer' = TrimTo(entryVer, got.cache)
           /\ IF cached_items # None
              THEN Returns(r, [q EXCEPT !.fver = HistoryGet(entryVer, ReadKey(q)),
                                        !.items = cached_items],
                           "ok", <<"hit", "return">>, 0)
              ELSE Goes(r, [q EXCEPT !.pc = "fetch"])
    /\ UNCHANGED <<now, ticks, lastSet, last, storeVars, seq, acked,
                 houseVars, aiVars>>

\* PantryService.get_household_pantry_items / get_my_pantry_items: the query
\* runs in a worker thread; it returns response.data or [], or raises 502
ReadFetch(r, ok) ==
    /\ reqs[r].pc = "fetch"
    /\ LET q == reqs[r]
           rows == IF q.op = "get_all"
                   THEN select_household_items(pantry_items, q.household_id)
                   ELSE select_user_items(pantry_items, q.household_id, q.user_id)
       IN  IF ok
           THEN Goes(r, [q EXCEPT !.pc = "fetched", !.items = ListValue(rows),
                                  !.fver = seq, !.events = <<"fetch">>])
           ELSE Returns(r, q, "error", <<"raise">>, 0)
    /\ UNCHANGED <<cacheVars, storeVars, seq, acked, entryVer,
                 houseVars, aiVars>>

\* the read handler after the await: store the list for 60 s and return it
ReadResume(r) ==
    /\ reqs[r].pc = "fetched"
    /\ LET q == reqs[r]
           key == ReadKey(q)
           items == q.items
       IN  IF items = None
           THEN /\ Returns(r, [q EXCEPT !.items = ListValue({})], "ok",
                           q.events \o <<"return">>, 0)
                /\ UNCHANGED <<cache, entryVer>>
           ELSE /\ cache' = IF q.op = "get_all"
                            THEN set_cached_household_items(cache, q.household_id,
                                                            items, now)
                            ELSE set_cached_user_items(cache, q.household_id,
                                                       q.user_id, items, now)
                /\ entryVer' = DictPut(entryVer, key, q.fver)
                /\ Returns(r, q, "ok",
                           q.events \o <<IF key \in DOMAIN cache THEN "overwrite"
                                                                ELSE "set",
                                         "return">>, 0)
    /\ UNCHANGED <<now, ticks, lastSet, last, storeVars, seq, acked,
                 houseVars, aiVars>>

\* what the caller passes: add one item; bulk a list of 0 or 1; update to a new
\* quantity; delete an item id
WriteArgs(op) ==
    CASE op = "add" -> {1}
      [] op = "bulk" -> {0, 1}
      [] op = "update" -> {2}
      [] OTHER -> ItemIds

\* a pantry write handler, up to the await of the service
WriteStart(r, op, user_id, arg) ==
    /\ CanStart(r)
    /\ get_current_household_id(user_id) # ""
    /\ LET household_id == get_current_household_id(user_id)
           q == [Idle EXCEPT !.op = op, !.user_id = user_id,
                             !.household_id = household_id, !.arg = arg]
       IN  IF op = "bulk" /\ arg = 0
           THEN Returns(r, q, "error", <<"raise">>, 0)
           ELSE IF op \in {"add", "bulk"}
                THEN Goes(r, [q EXCEPT !.pc = "check"])
                ELSE Goes(r, [q EXCEPT !.pc = "mutate"])
    /\ UNCHANGED <<cacheVars, storeVars, seq, acked, entryVer,
                 houseVars, aiVars>>

WriteCheck_NoCheck(r, ok) ==
    /\ reqs[r].pc = "check"
    /\ Goes(r, [reqs[r] EXCEPT !.pc = "mutate"])
    /\ UNCHANGED <<cacheVars, storeVars, seq, acked, entryVer,
                 houseVars, aiVars>>

\* add_pantry_item_single / add_pantry_item_bulk: the membership lookup, run in
\* a worker thread outside any try (its exception leaves the call as it is),
\* and the 403 when it finds no row
WriteCheck(r, ok) ==
    /\ reqs[r].pc = "check"
    /\ LET q == reqs[r]
       IN  IF ~ok
           THEN Returns(r, q, "error", <<"raise">>, 0)
           ELSE IF is_member(q.user_id, q.household_id)
                THEN Goes(r, [q EXCEPT !.pc = "mutate"])
                ELSE Returns(r, HTTPException(q, 403,
                                 "User is not a member of the specified household"),
                             "error", <<"raise">>, 0)
    /\ UNCHANGED <<cacheVars, storeVars, seq, acked, entryVer,
                 houseVars, aiVars>>

\* the service's mutation of pantry_items, run in a worker thread: it commits
\* and returns rows, or matches no row (404/500), or the call raises (502);
\* the handler lets the service's exception through
WriteMutate_InvalidateOnError(r, ok) ==
    /\ reqs[r].pc = "mutate"
    /\ cache' = invalidate_household_cache(cache, reqs[r].household_id)
    /\ entryVer' = TrimTo(entryVer, cache')
    /\ Returns(r, reqs[r], "error", <<"invalidate", "raise">>, 0)
    /\ UNCHANGED <<now, ticks, lastSet, last, storeVars, seq, acked,
                 houseVars, aiVars>>

\* the HTTPException of a service whose mutation raised (502) or returned no
\* row (500 for the inserts, 404 for update and delete)
mutate_error(q, ok) ==
    CASE q.op = "add" ->
             IF ~ok THEN HTTPException(q, 502, "Failed to create pantry item")
             ELSE HTTPException(q, 500, "Pantry item was not created")
      [] q.op = "bulk" ->
             IF ~ok THEN HTTPException(q, 502, "Failed to create pantry items")
             ELSE HTTPException(q, 500, "Pantry items were not created")
      [] q.op = "update" ->
             IF ~ok THEN HTTPException(q, 502, "Failed to update pantry item")
             ELSE HTTPException(q, 404, "Pantry item not found or not owned by user")
      [] OTHER ->
             IF ~ok THEN HTTPException(q, 502, "Failed to delete pantry item")
             ELSE HTTPException(q, 404, "Pantry item not found or not owned by user")

WriteMutate(r, ok) ==
    /\ reqs[r].pc = "mutate"
    /\ LET q == reqs[r]
           after ==
               CASE q.op \in {"add", "bulk"} ->
                        upsert_items(pantry_items, q.arg, q.household_id, q.user_id)
                 [] q.op = "update" ->
                        update_items(pantry_items, q.arg, q.household_id, q.user_id)
                 [] OTHER ->
                        delete_items(pantry_items, q.arg, q.household_id, q.user_id)
           data ==
               CASE q.op \in {"add", "bulk"} ->
                        {Row(after, i) : i \in (DOMAIN after) \ (DOMAIN pantry_items)}
                 [] q.op = "update" ->
                        select_user_items(after, q.household_id, q.user_id)
                 [] OTHER ->
                        {Row(pantry_items, i) :
                            i \in (DOMAIN pantry_items) \ (DOMAIN after)}
           fits == q.op \in {"add", "bulk"} =>
                       Cardinality(FreeIds(pantry_items)) >= q.arg
       IN  IF ok /\ fits /\ data # {}
           THEN /\ pantry_items' = after
                /\ seq' = seq + 1
                /\ Goes(r, [q EXCEPT !.pc = IF q.op \in {"add", "bulk"}
                                            THEN "embed" ELSE "return",
                                     !.items = ListValue(data), !.cver = seq + 1,
                                     !.events = <<"commit">>])
           ELSE /\ Returns(r, mutate_error(q, ok), "error", <<"raise">>, 0)
                /\ UNCHANGED <<pantry_items, seq>>
    /\ UNCHANGED <<cacheVars, household_members, pantry_embeddings, acked, entryVer,
                 houseVars, aiVars>>

\* add: embed the new rows and upsert pantry_embeddings; any failure is swallowed
WriteEmbed(r, ok) ==
    /\ reqs[r].pc = "embed"
    /\ LET q == reqs[r]
       IN  /\ pantry_embeddings' =
                  IF ok THEN pantry_embeddings \cup {row.id : row \in q.items.items}
                  ELSE pantry_embeddings
           /\ Goes(r, [q EXCEPT !.pc = "return"])
    /\ UNCHANGED <<cacheVars, pantry_items, household_members, seq, acked, entryVer,
                 houseVars, aiVars>>

\* the latest commit a successful write has returned for, per cache key
Acknowledge(q) ==
    [k \in (DOMAIN acked) \cup WriteKeys(q.household_id, q.user_id) |->
        IF k \in WriteKeys(q.household_id, q.user_id) THEN q.cver ELSE acked[k]]

WriteReturn_ReturnWithoutInvalidation(r) ==
    /\ reqs[r].pc = "return"
    /\ Returns(r, reqs[r], "ok", reqs[r].events \o <<"return">>, 0)
    /\ acked' = Acknowledge(reqs[r])
    /\ UNCHANGED <<cacheVars, storeVars, seq, entryVer,
                 houseVars, aiVars>>

\* the write handler after the await: the service returned a result, so both
\* cache entries of the scope are deleted and the result is returned
WriteReturn(r) ==
    /\ reqs[r].pc = "return"
    /\ LET q == reqs[r]
           result == q.items
           invalidated ==
               invalidate_user_cache(
                   invalidate_household_cache(cache, q.household_id),
                   q.household_id, q.user_id)
       IN  IF result = None
           THEN /\ Returns(r, q, "error", q.events \o <<"raise">>, 0)
                /\ UNCHANGED <<cache, entryVer, acked>>
           ELSE /\ cache' = invalidated
                /\ entryVer' = TrimTo(entryVer, invalidated)
                /\ acked' = Acknowledge(q)
                /\ Returns(r, q, "ok", q.events \o <<"invalidate", "return">>,
                           Cardinality(DOMAIN cache) - Cardinality(DOMAIN invalidated))
    /\ UNCHANGED <<now, ticks, lastSet, last, storeVars, seq,
                 houseVars, aiVars>>

HandlerTickSteps == {61}

\* the steps of the read handlers
ReadSteps ==
    \/ \E r \in Reqs, op \in ReadOps, user_id \in Users : ReadStart(r, op, user_id)
    \/ \E r \in Reqs, ok \in BOOLEAN : ReadFetch(r, ok)
    \/ \E r \in Reqs : ReadResume(r)

\* the steps of the write handlers
WriteSteps ==
    \/ \E r \in Reqs, op \in WriteOps, user_id \in Users :
           \E arg \in WriteArgs(op) : WriteStart(r, op, user_id, arg)
    \/ \E r \in Reqs, ok \in BOOLEAN : WriteCheck(r, ok)
    \/ \E r \in Reqs, ok \in BOOLEAN : WriteMutate(r, ok)
    \/ \E r \in Reqs, ok \in BOOLEAN : WriteEmbed(r, ok)
    \/ \E r \in Reqs : WriteReturn(r)

HandlerNext ==
    \/ \E d \in HandlerTickSteps : HandlerTick(d)
    \/ ReadSteps
    \/ WriteSteps

Spec == HandlerInit /\ [][HandlerNext]_vars

----------------------------------------------------------------------------
(* Claims about the pantry handlers, checked under Spec *)

IsLive(c, key, t) == key \in DOMAIN c /\ ~(t > c[key][2])

\* C1: a read that starts after a successful write for its scope has returned
\* never returns a listing fetched before that write committed; and no
\* listing fetched before the write committed is left in the cache once the
\* write has returned.
C1_NoStaleListingAfterWrite ==
    /\ (finished.op \in ReadOps /\ finished.status = "ok") =>
           finished.fver >= finished.sver
    /\ \A key \in DOMAIN cache :
           IsLive(cache, key, now) =>
               HistoryGet(entryVer, key) >= HistoryGet(acked, key)

\* C2: when a write handler returns success for household H and user U, the
\* cache holds neither the household-listing key of H nor the user-listing
\* key of (H, U).  (Only a step that returns adds a cache entry, so the state
\* in which `finished` is the write is the state at its return.)
C2_WriteLeavesNoListingEntry ==
    (finished.op \in WriteOps /\ finished.status = "ok") =>
        /\ household_key(finished.household_id) \notin DOMAIN cache
        /\ user_key(finished.household_id, finished.user_id) \notin DOMAIN cache

\* a write has returned success and removed a listing that was cached until then
C2_Witness ==
    /\ finished.op \in WriteOps
    /\ finished.status = "ok"
    /\ finished.dropped >= 1
    /\ household_key(finished.household_id) \notin DOMAIN cache
    /\ user_key(finished.household_id, finished.user_id) \notin DOMAIN cache

\* C5: a write handler that ends in an error performs no invalidation: the
\* cache after the step in which it fails is the cache before it.
C5_FailedWriteKeepsCache ==
    [][\A r \in Reqs :
          (/\ reqs[r].pc # "done"
           /\ reqs'[r].pc = "done"
           /\ finished'.op \in WriteOps
           /\ finished'.status = "error") => cache' = cache]_vars

\* a write has failed while a listing of its scope was cached: it still is
C5_Witness ==
    /\ finished.op \in {"update", "delete"}
    /\ finished.status = "error"
    /\ finished.events = <<"raise">>
    /\ \E key \in WriteKeys(finished.household_id, finished.user_id) :
           IsLive(cache, key, now)

\* C6: in a write request the commit comes first, then the invalidation, then
\* the return of success: a request still in flight has not invalidated, and
\* one that returned success did all three in that order.
C6_CommitInvalidateReturn ==
    /\ \A r \in Reqs :
           reqs[r].op \in WriteOps =>
               /\ reqs[r].events \in {<<>>, <<"commit">>}
               /\ reqs[r].events = <<"commit">> <=> reqs[r].pc \in {"embed", "return"}
               /\ reqs[r].events = <<"commit">> => reqs[r].cver \in 1..seq
    /\ (finished.op \in WriteOps /\ finished.status = "ok") =>
           finished.events = <<"commit", "invalidate", "return">>

\* a delete and a bulk add have both gone through the three steps
C6_Witness ==
    /\ finished.op \in {"delete", "bulk"}
    /\ finished.status = "ok"
    /\ finished.events = <<"commit", "invalidate", "return">>

----------------------------------------------------------------------------
(* app/services/household_service.py : join_household_by_invite and        *)
(* leave_household.  Each data-store call is awaited in a worker thread    *)
(* and is one step; a call that raises ends the request with an error.     *)
(* Neither function, nor its router, touches the listing cache.            *)

INVITE_CODE_LENGTH == 6

MAX_INVITE_CODE_RETRIES == 5

\* the invite codes callers send, and the ones _generate_invite_code draws
InviteInputs == {"BBBBBB", "bbbbbb ", "AAAAAA", "PPPPPP", "BB", ""}

GeneratedCodes == {"PPPPPP", "CCCCCC"}

\* invite_code.upper().strip()
upper_strip(invite_code) ==
    CASE invite_code = "bbbbbb " -> "BBBBBB"
      [] OTHER -> invite_code

\* the id the data store gives the next households row
HouseholdId(n) == "h" \o ToString(n)

NewHouseholdId(table) == HouseholdId(Cardinality(DOMAIN table) + 1)

CanMove ==
    /\ hreq.pc \in {"idle", "done"}
    /\ moves < MaxMoves

\* the request raises
Fails(q) == [q EXCEPT !.pc = "done", !.status = "error"]

\* join_household_by_invite, up to its first await: the invite code's format
JoinStart(user_id, invite_code) ==
    /\ CanMove
    /\ moves' = moves + 1
    /\ LET code == upper_strip(invite_code)
           q == [NoMove EXCEPT !.op = "join", !.user_id = user_id, !.code = code]
       IN  hreq' = IF code = "" \/ Len(code) # INVITE_CODE_LENGTH
                   THEN Fails(q)
                   ELSE [q EXCEPT !.pc = "target"]
    /\ UNCHANGED <<cacheVars, storeVars, reqVars, households, aiVars>>

\* the target household by invite code: 404 if none, 400 if it is personal
JoinTarget(ok) ==
    /\ hreq.op = "join"
    /\ hreq.pc = "target"
    /\ LET target == select_household_by_invite(households, hreq.code)
       IN  hreq' = IF ~ok \/ target = {}
                   THEN Fails(hreq)
                   ELSE LET new_household_id == CHOOSE h \in target : TRUE
                        IN  IF households[new_household_id].is_personal
                            THEN Fails(hreq)
                            ELSE [hreq EXCEPT !.new = new_household_id,
                                              !.pc = "membership"]
    /\ UNCHANGED <<cacheVars, storeVars, reqVars, households, moves, aiVars>>

\* the current membership: 400 if none, 400 if it is the target household
JoinMembership(ok) ==
    /\ hreq.op = "join"
    /\ hreq.pc = "membership"
    /\ LET membership == select_membership(household_members, hreq.user_id)
       IN  hreq' = IF ~ok \/ membership = {}
                   THEN Fails(hreq)
                   ELSE LET old_household_id == (CHOOSE m \in membership : TRUE)[2]
                        IN  IF old_household_id = hreq.new
                            THEN Fails(hreq)
                            ELSE [hreq EXCEPT !.old = old_household_id, !.pc = "move"]
    /\ UNCHANGED <<cacheVars, storeVars, reqVars, households, moves, aiVars>>

\* leave_household starts with its first await
LeaveStart(user_id) ==
    /\ CanMove
    /\ moves' = moves + 1
    /\ hreq' = [NoMove EXCEPT !.op = "leave", !.user_id = user_id,
                              !.pc = "membership"]
    /\ UNCHANGED <<cacheVars, storeVars, reqVars, households, aiVars>>

\* the current membership: 400 if none
LeaveMembership(ok) ==
    /\ hreq.op = "leave"
    /\ hreq.pc = "membership"
    /\ LET membership == select_membership(household_members, hreq.user_id)
       IN  hreq' = IF ~ok \/ membership = {}
                   THEN Fails(hreq)
                   ELSE [hreq EXCEPT !.old = (CHOOSE m \in membership : TRUE)[2],
                                     !.pc = "current"]
    /\ UNCHANGED <<cacheVars, storeVars, reqVars, households, moves, aiVars>>

\* the current household: 400 if it is already a personal one
LeaveCurrent(ok) ==
    /\ hreq.op = "leave"
    /\ hreq.pc = "current"
    /\ hreq' = IF ~ok
               THEN Fails(hreq)
               ELSE IF hreq.old \in DOMAIN households /\ households[hreq.old].is_personal
                    THEN Fails(hreq)
                    ELSE [hreq EXCEPT !.pc = "create"]
    /\ UNCHANGED <<cacheVars, storeVars, reqVars, households, moves, aiVars>>

LeaveCreate_OneMoreTry(ok, invite_code) ==
    /\ hreq.op = "leave"
    /\ hreq.pc = "create"
    /\ hreq' = IF hreq.tries = MAX_INVITE_CODE_RETRIES
               THEN Fails([hreq EXCEPT !.tries = hreq.tries + 1,
                                       !.error = "Failed to create personal household"])
               ELSE [hreq EXCEPT !.tries = hreq.tries + 1]
    /\ UNCHANGED <<cacheVars, storeVars, reqVars, households, moves, aiVars>>

\* one turn of the retry loop: insert a personal household under a fresh
\* invite code; an insert that raises (a taken code, or the call failing) is
\* tried again, MAX_INVITE_CODE_RETRIES times in all, and then it is a 500
LeaveCreate(ok, invite_code) ==
    /\ hreq.op = "leave"
    /\ hreq.pc = "create"
    /\ IF ok /\ select_household_by_invite(households, invite_code) = {}
       THEN LET personal_household_id == NewHouseholdId(households)
            IN  /\ households' = DictPut(households, personal_household_id,
                                    [invite_code |-> invite_code, is_personal |-> TRUE,
                                     owner_id |-> hreq.user_id])
                /\ hreq' = [hreq EXCEPT !.new = personal_household_id, !.pc = "move"]
       ELSE /\ hreq' = IF hreq.tries + 1 = MAX_INVITE_CODE_RETRIES
                       THEN Fails([hreq EXCEPT
                                      !.tries = hreq.tries + 1,
                                      !.error = "Failed to create personal household"])
                       ELSE [hreq EXCEPT !.tries = hreq.tries + 1]
            /\ UNCHANGED households
    /\ UNCHANGED <<cacheVars, storeVars, reqVars, moves, aiVars>>

\* move every pantry item the user owns in the old household to the new one
\* (join_household_by_invite; leave_household lines 388-401 are the same call)
HouseMove(ok) ==
    /\ hreq.pc = "move"
    /\ IF ok
       THEN /\ pantry_items' = move_items(pantry_items, hreq.old, hreq.new, hreq.user_id)
            /\ hreq' = [hreq EXCEPT !.pc = "unlink",
                            !.items_moved = Cardinality(
                                select_user_items(pantry_items, hreq.old, hreq.user_id))]
       ELSE /\ hreq' = Fails(hreq)
            /\ UNCHANGED pantry_items
    /\ UNCHANGED <<cacheVars, household_members, pantry_embeddings, reqVars,
                   households, moves, aiVars>>

HouseUnlink_KeepsOld(ok) ==
    /\ hreq.pc = "unlink"
    /\ hreq' = IF ok THEN [hreq EXCEPT !.pc = "link"] ELSE Fails(hreq)
    /\ UNCHANGED <<cacheVars, storeVars, reqVars, households, moves, aiVars>>

\* household_members .delete().eq("user_id", u)
HouseUnlink(ok) ==
    /\ hreq.pc = "unlink"
    /\ IF ok
       THEN /\ household_members' = {m \in household_members : m[1] # hreq.user_id}
            /\ hreq' = [hreq EXCEPT !.pc = "link"]
       ELSE /\ hreq' = Fails(hreq)
            /\ UNCHANGED household_members
    /\ UNCHANGED <<cacheVars, pantry_items, pantry_embeddings, reqVars,
                   households, moves, aiVars>>

\* household_members .insert({user_id, household_id: new}), and the response
HouseLink(ok) ==
    /\ hreq.pc = "link"
    /\ IF ok
       THEN /\ household_members' = household_members \cup {<<hreq.user_id, hreq.new>>}
            /\ hreq' = [hreq EXCEPT !.pc = "done", !.status = "ok"]
       ELSE /\ hreq' = Fails(hreq)
            /\ UNCHANGED household_members
    /\ UNCHANGED <<cacheVars, pantry_items, pantry_embeddings, reqVars,
                   households, moves, aiVars>>

HouseholdSteps ==
    \/ \E user_id \in Users, invite_code \in InviteInputs : JoinStart(user_id, invite_code)
    \/ \E ok \in BOOLEAN : JoinTarget(ok)
    \/ \E ok \in BOOLEAN : JoinMembership(ok)
    \/ \E user_id \in Users : LeaveStart(user_id)
    \/ \E ok \in BOOLEAN : LeaveMembership(ok)
    \/ \E ok \in BOOLEAN : LeaveCurrent(ok)
    \/ \E ok \in BOOLEAN, invite_code \in GeneratedCodes : LeaveCreate(ok, invite_code)
    \/ \E ok \in BOOLEAN : HouseMove(ok)
    \/ \E ok \in BOOLEAN : HouseUnlink(ok)
    \/ \E ok \in BOOLEAN : HouseLink(ok)

HouseholdInit ==
    /\ now = 0
    /\ ticks = 0
    /\ cache = EmptyDict
    /\ lastSet = EmptyDict
    /\ last = NoOp
    /\ pantry_items = [i \in {1, 2} |->
                          [household_id |-> IF i = 1 THEN "h1" ELSE "h3",
                           owner_id |-> IF i = 1 THEN "u1" ELSE "u2",
                           quantity |-> 1]]
    /\ household_members = {<<"u1", "h1">>, <<"u2", "h3">>}
    /\ pantry_embeddings = {}
    /\ reqs = [r \in Reqs |-> Idle]
    /\ finished = Idle
    /\ seq = 0
    /\ acked = EmptyDict
    /\ entryVer = EmptyDict
    /\ households = InitialHouseholds
    /\ hreq = NoMove
    /\ moves = 0
    /\ retriever_store = EmptyDict
    /\ storeVer = EmptyDict
    /\ retrieved = NoRetrieval
    /\ calls = 0
    /\ pantry_state = EmptyDict
    /\ rcLast = NoRcOp
    /\ rcSets = EmptyDict
    /\ rcInvalidated = EmptyDict
    /\ rcOps = 0
    /\ creq = <<>>
    /\ drawn = <<>>
    /\ wrapped = <<>>

\* join and leave requests, with listings being read all along
HouseholdNext ==
    \/ \E d \in HandlerTickSteps : HandlerTick(d)
    \/ ReadSteps
    \/ HouseholdSteps

SpecHousehold == HouseholdInit /\ [][HouseholdNext]_vars

----------------------------------------------------------------------------
(* Claims about join and leave, checked under SpecHousehold *)

\* the listing keys scoped to a household
ScopeKeys(household_id) ==
    {household_key(household_id)} \cup {user_key(household_id, u) : u \in Users}

\* C3: when a join or a leave that moves a user from H_old to H_new returns
\* success, the cache holds no live listing entry scoped to H_old and none
\* scoped to H_new.
C3_MoveInvalidatesBothScopes ==
    [][(hreq.pc # "done" /\ hreq'.pc = "done" /\ hreq'.status = "ok") =>
          \A key \in ScopeKeys(hreq'.old) \cup ScopeKeys(hreq'.new) :
              ~IsLive(cache', key, now')]_vars

----------------------------------------------------------------------------
(* app/ai/retriever_cache.py : RetrieverCache, and app/ai/retriver.py :     *)
(* retrieve_pantry_items.  time.monotonic() is read off the same clock as  *)
(* time.time().  A document is the id of the pantry_embeddings row it was  *)
(* made from.                                                              *)

RETRIEVER_TTL == 300

\* hashlib.sha256(raw.encode()).hexdigest(): one digest per string
sha256(raw) == <<"sha256", raw>>

lower(query) == IF query = "C" THEN "c" ELSE query

RetrieverCache_make_key_LowerQuery(household_id, query, k) ==
    LET raw == household_id \o ":" \o lower(query) \o ":" \o ToString(k)
    IN  sha256(raw)

RetrieverCache_make_key(household_id, query, k) ==
    LET raw == household_id \o ":" \o query \o ":" \o ToString(k)
    IN  sha256(raw)

RetrieverCache_get_ExpiresAtTtl(store, ttl, household_id, query, k, t) ==
    LET key == RetrieverCache_make_key(household_id, query, k)
    IN  IF key \notin DOMAIN store
        THEN [value |-> None, store |-> store]
        ELSE IF t - store[key][3] >= ttl
             THEN [value |-> None, store |-> DictDel(store, key)]
             ELSE [value |-> [serialized |-> store[key][2], documents |-> store[key][1]],
                   store |-> store]

RetrieverCache_get(store, ttl, household_id, query, k, t) ==
    LET key == RetrieverCache_make_key(household_id, query, k)
    IN  IF key \notin DOMAIN store
        THEN [value |-> None, store |-> store]
        ELSE LET documents == store[key][1]
                 serialized == store[key][2]
                 fetched_at == store[key][3]
             IN  IF t - fetched_at > ttl
                 THEN [value |-> None, store |-> DictDel(store, key)]
                 ELSE [value |-> [serialized |-> serialized, documents |-> documents],
                       store |-> store]

RetrieverCache_set(store, household_id, query, k, documents, serialized, t) ==
    LET key == RetrieverCache_make_key(household_id, query, k)
    IN  DictPut(store, key, <<documents, serialized, t, household_id>>)

RetrieverCache_invalidate_household_TokenOnly(store, state, household_id) ==
    [store |-> store, state |-> DictDel(state, household_id), removed |-> 0]

RetrieverCache_invalidate_household_EveryScope(store, state, household_id) ==
    [store |-> EmptyDict, state |-> DictDel(state, household_id),
     removed |-> Cardinality(DOMAIN store)]

RetrieverCache_invalidate_household_KeepsToken(store, state, household_id) ==
    [store |-> [key \in {j \in DOMAIN store : store[j][4] # household_id} |-> store[key]],
     state |-> state,
     removed |-> Cardinality({j \in DOMAIN store : store[j][4] = household_id})]

\* invalidate_household: the store and the version tokens afterwards
RetrieverCache_invalidate_household(store, state, household_id) ==
    LET keys_to_delete == {key \in DOMAIN store : store[key][4] = household_id}
    IN  [store |-> [key \in (DOMAIN store) \ keys_to_delete |-> store[key]],
         state |-> DictDel(state, household_id),
         removed |-> Cardinality(keys_to_delete)]

RetrieverCache_update_pantry_state_AlwaysChanged(state, household_id, latest_updated_at) ==
    [changed |-> TRUE, state |-> DictPut(state, household_id, latest_updated_at)]

\* update_pantry_state: what it returns and the version tokens afterwards;
\* dict.get's None is the empty set here, a stored token a singleton
RetrieverCache_update_pantry_state(state, household_id, latest_updated_at) ==
    LET previous == IF household_id \in DOMAIN state
                    THEN {state[household_id]} ELSE {}
    IN  IF previous # {latest_updated_at}
        THEN [changed |-> TRUE,
              state |-> DictPut(state, household_id, latest_updated_at)]
        ELSE [changed |-> FALSE, state |-> state]

\* the rows of a set of ids, in the order of their ids
RECURSIVE Ascending(_)
Ascending(S) ==
    IF S = {} THEN <<>>
    ELSE LET lowest == CHOOSE i \in S : \A j \in S : i <= j
         IN  <<lowest>> \o Ascending(S \ {lowest})

\* retriever.get_relevant_documents(query): the rows of pantry_embeddings,
\* ranked by the store's similarity search, which is not household-scoped
get_relevant_documents(embeddings, query) == Ascending(embeddings)

\* documents[:k]
Slice(documents, k) ==
    SubSeq(documents, 1, IF k < Len(documents) THEN k ELSE Len(documents))

page_content(doc) == "item " \o ToString(doc)

\* "\n\n".join(doc.page_content for doc in documents)
RECURSIVE Serialize(_)
Serialize(documents) ==
    IF documents = <<>> THEN ""
    ELSE IF Len(documents) = 1 THEN page_content(documents[1])
         ELSE page_content(documents[1]) \o "\n\n" \o Serialize(Tail(documents))

Queries == {"milk"}

TopKs == {1, 5}

\* the household_id argument: a household id, or None
HouseholdArgs == {Given("h1"), NotGiven}

\* retrieve_pantry_items(query, k, household_id): a synchronous call
retrieve_pantry_items(query, k, household_id) ==
    /\ calls < MaxRetrievals
    /\ calls' = calls + 1
    /\ LET hh_key == IF household_id # NotGiven THEN ArgValue(household_id)
                     ELSE "global"
           key == RetrieverCache_make_key(hh_key, query, k)
           got == RetrieverCache_get(retriever_store, RETRIEVER_TTL, hh_key, query, k, now)
           cached == got.value
           documents == Slice(get_relevant_documents(pantry_embeddings, query), k)
           serialized == Serialize(documents)
           call == [NoRetrieval EXCEPT !.household_key = hh_key, !.query = query,
                                       !.k = k,
                                       !.aver = HistoryGet(acked, household_key(hh_key))]
       IN  IF cached # None
           THEN /\ retriever_store' = got.store
                /\ retrieved' = [call EXCEPT !.hit = TRUE,
                                             !.serialized = cached.serialized,
                                             !.documents = cached.documents,
                                             !.ver = HistoryGet(storeVer, key)]
                /\ UNCHANGED storeVer
           ELSE /\ retriever_store' = RetrieverCache_set(got.store, hh_key, query, k,
                                                        documents, serialized, now)
                /\ storeVer' = DictPut(storeVer, key, seq)
                /\ retrieved' = [call EXCEPT !.serialized = serialized,
                                             !.documents = documents, !.ver = seq]
    /\ UNCHANGED <<cacheVars, storeVars, reqVars, houseVars, rcVars>>

RetrieverInit ==
    /\ now = 0
    /\ ticks = 0
    /\ cache = EmptyDict
    /\ lastSet = EmptyDict
    /\ last = NoOp
    /\ pantry_items = [i \in {1} |->
                          [household_id |-> "h1", owner_id |-> "u1", quantity |-> 1]]
    /\ household_members = InitialMembers
    /\ pantry_embeddings = {1}
    /\ reqs = [r \in Reqs |-> Idle]
    /\ finished = Idle
    /\ seq = 0
    /\ acked = EmptyDict
    /\ entryVer = EmptyDict
    /\ households = InitialHouseholds
    /\ hreq = NoMove
    /\ moves = 0
    /\ retriever_store = EmptyDict
    /\ storeVer = EmptyDict
    /\ retrieved = NoRetrieval
    /\ calls = 0
    /\ pantry_state = EmptyDict
    /\ rcLast = NoRcOp
    /\ rcSets = EmptyDict
    /\ rcInvalidated = EmptyDict
    /\ rcOps = 0
    /\ creq = <<>>
    /\ drawn = <<>>
    /\ wrapped = <<>>

RetrieverTickSteps == {301}

\* retrievals, with pantry writes going on
RetrieverNext ==
    \/ \E d \in RetrieverTickSteps : HandlerTick(d)
    \/ WriteSteps
    \/ \E query \in Queries, k \in TopKs, household_id \in HouseholdArgs :
           retrieve_pantry_items(query, k, household_id)

SpecRetriever == RetrieverInit /\ [][RetrieverNext]_vars

----------------------------------------------------------------------------
(* Claims about the retriever cache, checked under SpecRetriever *)

\* C4: once a pantry write for household H has returned success,
\* retrieve_pantry_items for H returns no result that was stored in the
\* RetrieverCache before that write committed.
C4_WritesInvalidateRetrieverCache ==
    retrieved.hit => retrieved.ver >= retrieved.aver

----------------------------------------------------------------------------
(* RetrieverCache on its own: any caller of get, set, invalidate_household *)
(* and update_pantry_state, with the household scopes the program passes   *)
(* (str(household_id), or "global").                                       *)

MaxRcOps == 5

RcScopes == {"h1", "global"}

RcQueries == {"milk"}

RcKs == {1, 5}

RcDocuments == {<<1>>, <<1, 2>>}

RcTokens == {"t1", "t2"}

RcTickSteps == {1, 300}

RcCanCall == rcOps < MaxRcOps

RcInit ==
    /\ now = 0
    /\ ticks = 0
    /\ cache = EmptyDict
    /\ lastSet = EmptyDict
    /\ last = NoOp
    /\ pantry_items = EmptyDict
    /\ household_members = {}
    /\ pantry_embeddings = {}
    /\ reqs = <<>>
    /\ finished = <<>>
    /\ seq = 0
    /\ acked = EmptyDict
    /\ entryVer = EmptyDict
    /\ households = EmptyDict
    /\ hreq = <<>>
    /\ moves = 0
    /\ retriever_store = EmptyDict
    /\ storeVer = EmptyDict
    /\ retrieved = <<>>
    /\ calls = 0
    /\ pantry_state = EmptyDict
    /\ rcLast = NoRcOp
    /\ rcSets = EmptyDict
    /\ rcInvalidated = EmptyDict
    /\ rcOps = 0
    /\ creq = <<>>
    /\ drawn = <<>>
    /\ wrapped = <<>>

rcRest == <<cache, lastSet, last, storeVars, reqVars, houseVars, storeVer,
            retrieved, calls, drawn, wrapped, creq>>

\* the clock moves on between two calls; a move counts towards MaxRcOps
RcTick(d) ==
    /\ RcCanCall
    /\ rcOps' = rcOps + 1
    /\ now' = now + d
    /\ UNCHANGED <<ticks, retriever_store, pantry_state, rcLast, rcSets,
                   rcInvalidated, rcRest>>

RcGet(household_id, query, k) ==
    /\ RcCanCall
    /\ rcOps' = rcOps + 1
    /\ LET got == RetrieverCache_get(retriever_store, RETRIEVER_TTL,
                                     household_id, query, k, now)
           call == [NoRcOp EXCEPT !.op = "get", !.household_id = household_id,
                                  !.query = query, !.k = k, !.at = now]
       IN  /\ retriever_store' = got.store
           /\ rcLast' = IF got.value = None
                        THEN [call EXCEPT !.removed =
                                 Cardinality(DOMAIN retriever_store)
                                     - Cardinality(DOMAIN got.store)]
                        ELSE [call EXCEPT !.hit = TRUE,
                                          !.serialized = got.value.serialized,
                                          !.documents = got.value.documents]
    /\ UNCHANGED <<now, ticks, pantry_state, rcSets, rcInvalidated, rcRest>>

RcSet(household_id, query, k, documents, serialized) ==
    /\ RcCanCall
    /\ rcOps' = rcOps + 1
    /\ retriever_store' = RetrieverCache_set(retriever_store, household_id, query, k,
                                             documents, serialized, now)
    /\ rcSets' = DictPut(rcSets, <<household_id, query, k>>,
                     [documents |-> documents, serialized |-> serialized, at |-> now])
    /\ rcInvalidated' = DictDel(rcInvalidated, household_id)
    /\ rcLast' = [NoRcOp EXCEPT !.op = "set", !.household_id = household_id,
                                !.query = query, !.k = k, !.at = now]
    /\ UNCHANGED <<now, ticks, pantry_state, rcRest>>

RcInvalidate(household_id) ==
    /\ RcCanCall
    /\ rcOps' = rcOps + 1
    /\ LET after == RetrieverCache_invalidate_household(retriever_store, pantry_state,
                                                        household_id)
       IN  /\ retriever_store' = after.store
           /\ pantry_state' = after.state
           /\ rcLast' = [NoRcOp EXCEPT !.op = "invalidate_household",
                                       !.household_id = household_id,
                                       !.removed = after.removed,
                                       !.changed = household_id \in DOMAIN pantry_state,
                                       !.at = now]
    /\ rcSets' = [t \in {u \in DOMAIN rcSets : u[1] # household_id} |-> rcSets[t]]
    /\ rcInvalidated' = DictPut(rcInvalidated, household_id,
                                Cardinality(DOMAIN retriever_store)
                                    - Cardinality(DOMAIN retriever_store'))
    /\ UNCHANGED <<now, ticks, rcRest>>

RcUpdate(household_id, latest_updated_at) ==
    /\ RcCanCall
    /\ rcOps' = rcOps + 1
    /\ LET r == RetrieverCache_update_pantry_state(pantry_state, household_id,
                                                   latest_updated_at)
       IN  /\ pantry_state' = r.state
           /\ rcLast' = [NoRcOp EXCEPT !.op = "update_pantry_state",
                                       !.household_id = household_id,
                                       !.query = latest_updated_at,
                                       !.changed = r.changed, !.at = now,
                                       !.trail =
                                           (IF /\ rcLast.op = "update_pantry_state"
                                               /\ rcLast.household_id = household_id
                                            THEN rcLast.trail ELSE <<>>)
                                               \o <<<<latest_updated_at, r.changed>>>>]
    /\ UNCHANGED <<now, ticks, retriever_store, rcSets, rcInvalidated, rcRest>>

RcNext ==
    \/ \E d \in RcTickSteps : RcTick(d)
    \/ \E household_id \in RcScopes, query \in RcQueries, k \in RcKs :
           RcGet(household_id, query, k)
    \/ \E household_id \in RcScopes, query \in RcQueries, k \in RcKs,
          documents \in RcDocuments :
           RcSet(household_id, query, k, documents, Serialize(documents))
    \/ \E household_id \in RcScopes : RcInvalidate(household_id)
    \/ \E household_id \in RcScopes, latest_updated_at \in RcTokens :
           RcUpdate(household_id, latest_updated_at)

SpecRetrieverCache == RcInit /\ [][RcNext]_vars

----------------------------------------------------------------------------
(* Claims about RetrieverCache, checked under SpecRetrieverCache *)

\* the step is a call of operation op (the clock moves in no call)
RcCalls(op) == rcOps' # rcOps /\ now' = now /\ rcLast'.op = op

\* what get(h, q, k) would return now
RcLookup(store, household_id, query, k) ==
    RetrieverCache_get(store, RETRIEVER_TTL, household_id, query, k, now).value

\* C14: once invalidate_household(h) has returned, and until a later set for
\* h, get(h, q, k) misses for every q and k, whether or not the TTL is over.
C14_InvalidatedScopeMisses ==
    \A h \in DOMAIN rcInvalidated :
        /\ \A q \in RcQueries, k \in RcKs : RcLookup(retriever_store, h, q, k) = None
        /\ (rcLast.op = "get" /\ rcLast.household_id = h) => ~rcLast.hit

\* both entries of a scope were cached, the scope was invalidated, and a get
\* for it misses at the very time they were stored
C14_Witness ==
    /\ rcLast.op = "get"
    /\ ~rcLast.hit
    /\ rcLast.household_id \in DOMAIN rcInvalidated
    /\ rcInvalidated[rcLast.household_id] = 2
    /\ now = 0

\* C15: invalidate_household(h1) removes the entries of h1 and leaves every
\* entry and every version token of every other scope as it was, so that a
\* get for another scope returns what it returned before.
C15_InvalidationIsScoped ==
    [][RcCalls("invalidate_household") =>
          LET h1 == rcLast'.household_id
          IN  /\ \A key \in DOMAIN retriever_store :
                     IF retriever_store[key][4] = h1
                     THEN key \notin DOMAIN retriever_store'
                     ELSE /\ key \in DOMAIN retriever_store'
                          /\ retriever_store'[key] = retriever_store[key]
              /\ DOMAIN retriever_store' \subseteq DOMAIN retriever_store
              /\ \A h2 \in RcScopes \ {h1} :
                     /\ h2 \in DOMAIN pantry_state' <=> h2 \in DOMAIN pantry_state
                     /\ h2 \in DOMAIN pantry_state =>
                            pantry_state'[h2] = pantry_state[h2]
                     /\ \A q \in RcQueries, k \in RcKs :
                            RcLookup(retriever_store', h2, q, k)
                                = RcLookup(retriever_store, h2, q, k)
              /\ \A q \in RcQueries, k \in RcKs :
                     RcLookup(retriever_store', h1, q, k) = None]_vars

\* set(h1, q, k), set(h2, q, k), invalidate_household(h1): get(h2, q, k) still
\* returns what was set for h2
C15_Witness ==
    /\ rcLast.op = "get"
    /\ rcLast.hit
    /\ \E h1 \in DOMAIN rcInvalidated :
           /\ h1 # rcLast.household_id
           /\ rcInvalidated[h1] >= 1
    /\ <<rcLast.household_id, rcLast.query, rcLast.k>> \in DOMAIN rcSets
    /\ rcLast.documents = rcSets[<<rcLast.household_id, rcLast.query, rcLast.k>>].documents

\* C16: invalidate_household(h) on a scope with no entry and no version token
\* changes nothing; on any scope it removes the version token of h, so the
\* next update_pantry_state(h, t) returns True whatever t is.
C16_InvalidateClearsToken ==
    [][RcCalls("invalidate_household") =>
          LET h == rcLast'.household_id
          IN  /\ (/\ h \notin DOMAIN pantry_state
                  /\ \A key \in DOMAIN retriever_store : retriever_store[key][4] # h)
                     => /\ retriever_store' = retriever_store
                        /\ pantry_state' = pantry_state
              /\ h \notin DOMAIN pantry_state'
              /\ \A t \in RcTokens :
                     RetrieverCache_update_pantry_state(pantry_state', h, t).changed]_vars

\* an invalidation of a scope that had nothing, in a cache that holds entries
\* and a token of another scope
C16_Witness ==
    /\ rcLast.op = "invalidate_household"
    /\ rcLast.removed = 0
    /\ ~rcLast.changed
    /\ retriever_store # EmptyDict
    /\ pantry_state # EmptyDict

\* C17: update_pantry_state(h, t) returns True exactly when no token is stored
\* for h or the stored one differs from t; afterwards the stored token of h is
\* t; no other token and no retrieval entry changes.
C17_UpdateComparesAndStores ==
    [][RcCalls("update_pantry_state") =>
          LET h == rcLast'.household_id
              t == rcLast'.query
          IN  /\ rcLast'.changed <=>
                     (h \notin DOMAIN pantry_state \/ pantry_state[h] # t)
              /\ h \in DOMAIN pantry_state'
              /\ pantry_state'[h] = t
              /\ DOMAIN pantry_state' = (DOMAIN pantry_state) \cup {h}
              /\ \A h2 \in (DOMAIN pantry_state) \ {h} :
                     pantry_state'[h2] = pantry_state[h2]
              /\ retriever_store' = retriever_store]_vars

\* t1, t1, t2 on a fresh scope: True, False, True
C17_Witness ==
    /\ rcLast.op = "update_pantry_state"
    /\ rcLast.trail = << <<"t1", TRUE>>, <<"t1", FALSE>>, <<"t2", TRUE>> >>
    /\ pantry_state[rcLast.household_id] = "t2"

\* C18: get(h, q, k) returns the pair of the latest set(h, q, k) that was not
\* invalidated, as long as now - fetched_at <= ttl; past that it returns
\* absent and removes that entry and no other.
C18_GetReturnsLatestSetWithinTtl ==
    [][RcCalls("get") =>
          LET triple == <<rcLast'.household_id, rcLast'.query, rcLast'.k>>
              key == RetrieverCache_make_key(triple[1], triple[2], triple[3])
          IN  IF triple \in DOMAIN rcSets /\ now - rcSets[triple].at <= RETRIEVER_TTL
              THEN /\ rcLast'.hit
                   /\ rcLast'.serialized = rcSets[triple].serialized
                   /\ rcLast'.documents = rcSets[triple].documents
                   /\ retriever_store' = retriever_store
              ELSE /\ ~rcLast'.hit
                   /\ DOMAIN retriever_store' = (DOMAIN retriever_store) \ {key}
                   /\ \A j \in DOMAIN retriever_store' :
                          retriever_store'[j] = retriever_store[j]]_vars

\* an entry 301 s old: get misses and removes it, and the other entry stays
C18_Witness ==
    /\ rcLast.op = "get"
    /\ ~rcLast.hit
    /\ rcLast.removed = 1
    /\ <<rcLast.household_id, rcLast.query, rcLast.k>> \in DOMAIN rcSets
    /\ rcLast.at - rcSets[<<rcLast.household_id, rcLast.query, rcLast.k>>].at
           = RETRIEVER_TTL + 1
    /\ retriever_store # EmptyDict

----------------------------------------------------------------------------
(* RetrieverCache._make_key on pairs of argument triples: SpecMakeKey *)

\* scopes, queries and top-k values the pairs are drawn from; a query is any
\* text, and the class takes any string as a scope
KeyScopes == {"a", "a:b"}

KeyQueries == {"c", "b:c", "C"}

KeyKs == {1, 5}

KeyTriples == KeyScopes \X KeyQueries \X KeyKs

KeyInit ==
    /\ now = 0
    /\ ticks = 0
    /\ cache = EmptyDict
    /\ lastSet = EmptyDict
    /\ last = NoOp
    /\ pantry_items = EmptyDict
    /\ household_members = {}
    /\ pantry_embeddings = {}
    /\ reqs = <<>>
    /\ finished = <<>>
    /\ seq = 0
    /\ acked = EmptyDict
    /\ entryVer = EmptyDict
    /\ households = EmptyDict
    /\ hreq = <<>>
    /\ moves = 0
    /\ retriever_store = EmptyDict
    /\ storeVer = EmptyDict
    /\ retrieved = <<>>
    /\ calls = 0
    /\ pantry_state = EmptyDict
    /\ rcLast = NoRcOp
    /\ rcSets = EmptyDict
    /\ rcInvalidated = EmptyDict
    /\ rcOps = 0
    /\ creq = <<>>
    /\ drawn \in [first : KeyTriples, second : KeyTriples, keys : {<<>>}]
    /\ wrapped = <<>>

keyRest == <<now, ticks, cache, lastSet, last, storeVars, reqVars, houseVars,
             storeVer, retrieved, calls, pantry_state, rcSets, rcInvalidated, rcOps,
             wrapped, creq>>

\* _make_key is called on both triples
KeyMake ==
    /\ drawn.keys = <<>>
    /\ drawn' = [drawn EXCEPT !.keys =
                    <<RetrieverCache_make_key(drawn.first[1], drawn.first[2], drawn.first[3]),
                      RetrieverCache_make_key(drawn.second[1], drawn.second[2], drawn.second[3])>>]
    /\ UNCHANGED <<retriever_store, rcLast, keyRest>>

\* set for the first triple
KeySet(documents) ==
    /\ rcLast.op = "none"
    /\ retriever_store' = RetrieverCache_set(retriever_store, drawn.first[1], drawn.first[2],
                                             drawn.first[3], documents,
                                             Serialize(documents), now)
    /\ rcLast' = [NoRcOp EXCEPT !.op = "set", !.household_id = drawn.first[1],
                                !.query = drawn.first[2], !.k = drawn.first[3],
                                !.documents = documents, !.at = now]
    /\ UNCHANGED <<drawn, keyRest>>

\* get for the second triple, after the set
KeyGet ==
    /\ rcLast.op = "set"
    /\ LET got == RetrieverCache_get(retriever_store, RETRIEVER_TTL, drawn.second[1],
                                     drawn.second[2], drawn.second[3], now)
           call == [NoRcOp EXCEPT !.op = "get", !.household_id = drawn.second[1],
                                  !.query = drawn.second[2], !.k = drawn.second[3],
                                  !.at = now]
       IN  /\ retriever_store' = got.store
           /\ rcLast' = IF got.value = None
                        THEN call
                        ELSE [call EXCEPT !.hit = TRUE,
                                          !.serialized = got.value.serialized,
                                          !.documents = got.value.documents]
    /\ UNCHANGED <<drawn, keyRest>>

KeyNext ==
    \/ KeyMake
    \/ \E documents \in RcDocuments : KeySet(documents)
    \/ KeyGet

SpecMakeKey == KeyInit /\ [][KeyNext]_vars

\* the number of arguments in which the two triples differ
KeyDiffers ==
    Cardinality({i \in 1..3 : drawn.first[i] # drawn.second[i]})

\* C12: _make_key returns the same key for the same three arguments, and a
\* different key when exactly one argument changes; a query that differs only
\* in letter case is a different argument.
C12_KeyDeterminedByArguments ==
    drawn.keys # <<>> =>
        /\ drawn.keys[1] = RetrieverCache_make_key(drawn.first[1], drawn.first[2],
                                                   drawn.first[3])
        /\ KeyDiffers = 0 => drawn.keys[1] = drawn.keys[2]
        /\ KeyDiffers = 1 => drawn.keys[1] # drawn.keys[2]

\* two triples that differ only in the case of the query have different keys
C12_Witness ==
    /\ drawn.keys # <<>>
    /\ drawn.first = <<"a", "c", 1>>
    /\ drawn.second = <<"a", "C", 1>>
    /\ drawn.keys[1] # drawn.keys[2]

\* C13: two distinct triples never have the same key, whether or not their
\* strings contain ':', so a set for one triple does not answer a get for
\* another.
C13_DistinctTriplesDistinctKeys ==
    drawn.first # drawn.second =>
        /\ drawn.keys # <<>> => drawn.keys[1] # drawn.keys[2]
        /\ rcLast.op = "get" => ~rcLast.hit

----------------------------------------------------------------------------
(* app/core/cache.py : cached, on the cache the read handlers use: SpecCached *)

MaxCalls == 2

\* @cached(ttl_seconds=60)
CACHED_TTL == 60

\* the wrapped functions: an `async def` and a `def`
WrappedFuncs == {"get_user", "get_flag"}

\* func.__code__.co_flags & 0x80
is_coroutine(func) == func = "get_user"

WrappedArgs == {1}

\* the wrapped function raises, or its await is cancelled
Raises == [raises |-> TRUE]

\* what one execution of a wrapped function can do
WrappedOutcomes == {None, ListValue({1}), Raises}

CachedTickSteps == {60, 61}

\* the user whose requests reach get_all_pantry_items
CachedUsers == {"u1"}

Calls == 1..MaxCalls

\* f"{func.__name__}:{str(args)}:{str(sorted(kwargs.items()))}" for args = (arg,)
\* and no keyword arguments
cache_key(func, arg) == func \o ":(" \o ToString(arg) \o ",):[]"

cached_after_func_StoresOnError(c, key, outcome, ttl_seconds, t) ==
    IF outcome = Raises
    THEN [cache |-> TTLCache_set(c, key, None, Given(ttl_seconds), t),
          status |-> "raised", result |-> None]
    ELSE [cache |-> TTLCache_set(c, key, outcome, Given(ttl_seconds), t),
          status |-> "returned", result |-> outcome]

\* the wrapper from the call of func on: an exception leaves the wrapper
\* before cache.set, a result is stored and returned
cached_after_func(c, key, outcome, ttl_seconds, t) ==
    IF outcome = Raises
    THEN [cache |-> c, status |-> "raised", result |-> None]
    ELSE [cache |-> TTLCache_set(c, key, outcome, Given(ttl_seconds), t),
          status |-> "returned", result |-> outcome]

\* a call of a wrapped function: where it is, what it returned, how many times
\* it ran func; and, from the time of the call, whether an earlier call with
\* the same key had completed within the TTL (due) with which result (expect),
\* and how many results had been stored under the key (sets0)
NoCall ==
    [pc |-> "idle", func |-> "", arg |-> 0, key |-> "", status |-> "",
     result |-> None, ran |-> 0, due |-> FALSE, expect |-> None, sets0 |-> 0]

CallGone == [NoCall EXCEPT !.pc = "done"]

\* calls: the calls in flight; finished: the call that returned last;
\* stored: key -> result and time of the latest completed call;
\* sets: key -> how many results were stored
NoWrapped ==
    [calls |-> [c \in Calls |-> NoCall], finished |-> NoCall,
     stored |-> EmptyDict, sets |-> EmptyDict]

CachedInit ==
    /\ now = 0
    /\ ticks = 0
    /\ cache = EmptyDict
    /\ lastSet = EmptyDict
    /\ last = NoOp
    /\ pantry_items = [i \in {1} |->
                          [household_id |-> "h1", owner_id |-> "u1", quantity |-> 1]]
    /\ household_members = InitialMembers
    /\ pantry_embeddings = {}
    /\ reqs = [r \in Reqs |-> Idle]
    /\ finished = Idle
    /\ seq = 0
    /\ acked = EmptyDict
    /\ entryVer = EmptyDict
    /\ households = InitialHouseholds
    /\ hreq = NoMove
    /\ moves = 0
    /\ retriever_store = EmptyDict
    /\ storeVer = EmptyDict
    /\ retrieved = NoRetrieval
    /\ calls = 0
    /\ pantry_state = EmptyDict
    /\ rcLast = NoRcOp
    /\ rcSets = EmptyDict
    /\ rcInvalidated = EmptyDict
    /\ rcOps = 0
    /\ creq = <<>>
    /\ drawn = <<>>
    /\ wrapped = NoWrapped

cachedRest == <<ticks, lastSet, last, storeVars, reqVars, houseVars,
                retriever_store, storeVer, retrieved, calls, pantry_state, rcLast,
                rcSets, rcInvalidated, rcOps, drawn, creq>>

\* the call ends: its record is kept, and a stored result is noted
CallEnds(c, q, after, ran) ==
    wrapped' = [wrapped EXCEPT
                   !.calls[c] = CallGone,
                   !.finished = [q EXCEPT !.pc = "done", !.status = after.status,
                                          !.result = after.result, !.ran = ran],
                   !.stored = IF after.status = "returned" /\ ran = 1
                              THEN DictPut(@, q.key, [value |-> after.result, at |-> now])
                              ELSE @,
                   !.sets = IF after.status = "returned" /\ ran = 1
                            THEN DictPut(@, q.key, HistoryGet(@, q.key) + 1)
                            ELSE @]

\* async_wrapper up to `await func(...)`, sync_wrapper to its end: a hit returns
\* the cached value; on a miss the `def` runs at once, the `async def` is awaited
CachedCall(c, func, arg, outcome) ==
    /\ wrapped.calls[c].pc = "idle"
    /\ c > 1 => wrapped.calls[c - 1].pc # "idle"
    /\ LET key == cache_key(func, arg)
           got == TTLCache_get(cache, key, now)
           cached_value == got.value
           due == /\ key \in DOMAIN wrapped.stored
                  /\ now - wrapped.stored[key].at <= CACHED_TTL
           q == [NoCall EXCEPT !.func = func, !.arg = arg, !.key = key, !.due = due,
                               !.expect = IF due THEN wrapped.stored[key].value ELSE None,
                               !.sets0 = HistoryGet(wrapped.sets, key)]
       IN  IF cached_value # None
           THEN /\ cache' = got.cache
                /\ CallEnds(c, q, [status |-> "returned", result |-> cached_value], 0)
           ELSE IF is_coroutine(func)
                THEN /\ cache' = got.cache
                     /\ wrapped' = [wrapped EXCEPT !.calls[c] = [q EXCEPT !.pc = "await"]]
                ELSE LET after == cached_after_func(got.cache, key, outcome,
                                                    CACHED_TTL, now)
                     IN  /\ cache' = after.cache
                         /\ CallEnds(c, q, after, 1)
    /\ UNCHANGED <<now, cachedRest>>

\* async_wrapper after `await func(...)`
CachedResume(c, outcome) ==
    /\ wrapped.calls[c].pc = "await"
    /\ LET q == wrapped.calls[c]
           after == cached_after_func(cache, q.key, outcome, CACHED_TTL, now)
       IN  /\ cache' = after.cache
           /\ CallEnds(c, q, after, 1)
    /\ UNCHANGED <<now, cachedRest>>

CachedNext ==
    \/ \E d \in CachedTickSteps : HandlerTick(d)
    \/ \E r \in Reqs, user_id \in CachedUsers : ReadStart(r, "get_all", user_id)
    \/ \E r \in Reqs, ok \in BOOLEAN : ReadFetch(r, ok)
    \/ \E r \in Reqs : ReadResume(r)
    \/ \E c \in Calls, func \in WrappedFuncs, arg \in WrappedArgs :
           \E outcome \in WrappedOutcomes : CachedCall(c, func, arg, outcome)
    \/ \E c \in Calls, outcome \in WrappedOutcomes : CachedResume(c, outcome)

SpecCached == CachedInit /\ [][CachedNext]_vars

----------------------------------------------------------------------------
(* Claims about cached and failing backend calls, checked under SpecCached *)

\* call c of a wrapped function returns to its caller in this step
CallReturns(c) == wrapped.calls[c].pc # "done" /\ wrapped'.calls[c].pc = "done"

\* C19: once a call of a wrapped function has completed, every later call
\* with the same arguments within the TTL returns the stored result and does
\* not run the function, whatever the result is (None included); a miss runs
\* the function once and stores its result.
C19_LaterCallsReuseResult ==
    [][\A c \in Calls :
           CallReturns(c) =>
               LET q == wrapped'.finished
               IN  /\ q.due => (q.ran = 0 /\ q.result = q.expect)
                   /\ (~q.due /\ q.status = "returned") =>
                          /\ q.ran = 1
                          /\ q.key \in DOMAIN cache'
                          /\ cache'[q.key] = <<q.result, now + CACHED_TTL>>]_vars

\* no entry is added or changed in this step; an entry that goes had expired
NoEntryWritten ==
    /\ \A key \in DOMAIN cache' : key \in DOMAIN cache /\ cache'[key] = cache[key]
    /\ \A key \in (DOMAIN cache) \ (DOMAIN cache') : ~IsLive(cache, key, now)

----------------------------------------------------------------------------
(* Claims about concurrent requests, checked under Spec *)

\* request r is a read handler that stores its listing in this step
ReadStores(r) ==
    /\ reqs[r].pc = "fetched"
    /\ reqs'[r].pc = "done"
    /\ reqs[r].items # None

\* C21: two requests that miss the same key each fetch and each store; after
\* each store the cache holds one entry for the key, which is the whole
\* listing of the request that stored last with its own expiry, and no other
\* key is touched.
C21_LastWriterWins ==
    [][\A r \in Reqs :
           /\ (reqs[r].pc = "idle" /\ reqs'[r].pc # "idle"
                   /\ reqs'[r].op \in ReadOps
                   /\ ~IsLive(cache, ReadKey(reqs'[r]), now)) =>
                  reqs'[r].pc = "fetch"
           /\ ReadStores(r) =>
                  LET key == ReadKey(reqs[r])
                  IN  /\ DOMAIN cache' = (DOMAIN cache) \cup {key}
                      /\ cache'[key] = <<reqs[r].items, now + PANTRY_LIST_TTL>>
                      /\ \A j \in (DOMAIN cache) \ {key} : cache'[j] = cache[j]
                      /\ finished'.events[1] = "fetch"]_vars

\* get_my_pantry_items: a request that missed and fetched has stored its
\* listing over the entry that another request stored meanwhile
C21_Witness ==
    /\ finished.op = "get_my"
    /\ finished.status = "ok"
    /\ finished.events = <<"fetch", "overwrite", "return">>
    /\ IsLive(cache, ReadKey(finished), now)
    /\ cache[ReadKey(finished)][2] = now + PANTRY_LIST_TTL

----------------------------------------------------------------------------
(* The two caches under operations of requests in flight: SpecOps.  Every  *)
(* cache method is called from a coroutine and has no await inside, so the *)
(* requests interleave whole operations.                                   *)

MaxOps == 4

\* d[key] and del d[key] raise KeyError when the key is absent
getitem_raises(d, key) == key \notin DOMAIN d

delitem_raises(d, key) == key \notin DOMAIN d

\* `a, b = entry` raises ValueError unless the entry has n components
unpack_raises(entry, n) == Len(entry) # n

\* TTLCache.get: the exceptions its statements can raise
TTLCache_get_raises(c, key, t) ==
    IF key \notin DOMAIN c
    THEN FALSE
    ELSE \/ getitem_raises(c, key)
         \/ unpack_raises(c[key], 2)
         \/ (t > c[key][2] /\ delitem_raises(c, key))

TTLCache_delete_raises_Unguarded(c, key) == delitem_raises(c, key)

\* TTLCache.delete
TTLCache_delete_raises(c, key) ==
    IF key \in DOMAIN c THEN delitem_raises(c, key) ELSE FALSE

\* TTLCache._evict_expired, called by size: the keys are collected first and
\* deleted one by one
TTLCache_size_raises(c, t) ==
    LET expired_keys == {key \in DOMAIN c : t > c[key][2]}
    IN  \/ \E key \in DOMAIN c : unpack_raises(c[key], 2)
        \/ \E key \in expired_keys : delitem_raises(c, key)

\* RetrieverCache.get
RetrieverCache_get_raises(store, ttl, household_id, query, k, t) ==
    LET key == RetrieverCache_make_key(household_id, query, k)
    IN  IF key \notin DOMAIN store
        THEN FALSE
        ELSE \/ unpack_raises(store[key], 4)
             \/ (t - store[key][3] > ttl /\ delitem_raises(store, key))

\* RetrieverCache.invalidate_household: pop has a default
RetrieverCache_invalidate_household_raises(store, household_id) ==
    LET keys_to_delete == {key \in DOMAIN store : store[key][4] = household_id}
    IN  \/ \E key \in DOMAIN store : unpack_raises(store[key], 4)
        \/ \E key \in keys_to_delete : delitem_raises(store, key)

OpsKeys == {"k1", "k2"}

OpsScopes == {"h1", "global"}

OpsTickSteps == {301}

OpsCanCall == rcOps < MaxOps

opsRest == <<ticks, lastSet, last, storeVars, reqVars, houseVars, storeVer,
             retrieved, calls, rcLast, rcSets, rcInvalidated, drawn, wrapped,
             creq>>

OpsTick(d) ==
    /\ OpsCanCall
    /\ rcOps' = rcOps + 1
    /\ now' = now + d
    /\ UNCHANGED <<cache, retriever_store, pantry_state, opsRest>>

OpsCacheGet(key) ==
    /\ OpsCanCall
    /\ ~TTLCache_get_raises(cache, key, now)
    /\ rcOps' = rcOps + 1
    /\ cache' = TTLCache_get(cache, key, now).cache
    /\ UNCHANGED <<now, retriever_store, pantry_state, opsRest>>

OpsCacheSet(key) ==
    /\ OpsCanCall
    /\ rcOps' = rcOps + 1
    /\ cache' = TTLCache_set(cache, key, ListValue({1}), NotGiven, now)
    /\ UNCHANGED <<now, retriever_store, pantry_state, opsRest>>

OpsCacheDelete(key) ==
    /\ OpsCanCall
    /\ ~TTLCache_delete_raises(cache, key)
    /\ rcOps' = rcOps + 1
    /\ cache' = TTLCache_delete(cache, key)
    /\ UNCHANGED <<now, retriever_store, pantry_state, opsRest>>

OpsCacheClear ==
    /\ OpsCanCall
    /\ rcOps' = rcOps + 1
    /\ cache' = TTLCache_clear(cache)
    /\ UNCHANGED <<now, retriever_store, pantry_state, opsRest>>

OpsCacheSize ==
    /\ OpsCanCall
    /\ ~TTLCache_size_raises(cache, now)
    /\ rcOps' = rcOps + 1
    /\ cache' = TTLCache_size(cache, now).cache
    /\ UNCHANGED <<now, retriever_store, pantry_state, opsRest>>

OpsRetrieverGet(household_id) ==
    /\ OpsCanCall
    /\ ~RetrieverCache_get_raises(retriever_store, RETRIEVER_TTL, household_id,
                                  "milk", 1, now)
    /\ rcOps' = rcOps + 1
    /\ retriever_store' = RetrieverCache_get(retriever_store, RETRIEVER_TTL,
                                             household_id, "milk", 1, now).store
    /\ UNCHANGED <<now, cache, pantry_state, opsRest>>

OpsRetrieverSet(household_id) ==
    /\ OpsCanCall
    /\ rcOps' = rcOps + 1
    /\ retriever_store' = RetrieverCache_set(retriever_store, household_id, "milk", 1,
                                             <<1>>, Serialize(<<1>>), now)
    /\ UNCHANGED <<now, cache, pantry_state, opsRest>>

OpsRetrieverInvalidate(household_id) ==
    /\ OpsCanCall
    /\ ~RetrieverCache_invalidate_household_raises(retriever_store, household_id)
    /\ rcOps' = rcOps + 1
    /\ LET after == RetrieverCache_invalidate_household(retriever_store, pantry_state,
                                                        household_id)
       IN  /\ retriever_store' = after.store
           /\ pantry_state' = after.state
    /\ UNCHANGED <<now, cache, opsRest>>

OpsRetrieverUpdate(household_id) ==
    /\ OpsCanCall
    /\ rcOps' = rcOps + 1
    /\ pantry_state' = RetrieverCache_update_pantry_state(pantry_state, household_id,
                                                          "t1").state
    /\ UNCHANGED <<now, cache, retriever_store, opsRest>>

OpsNext ==
    \/ \E d \in OpsTickSteps : OpsTick(d)
    \/ \E key \in OpsKeys : OpsCacheGet(key)
    \/ \E key \in OpsKeys : OpsCacheSet(key)
    \/ \E key \in OpsKeys : OpsCacheDelete(key)
    \/ OpsCacheClear
    \/ OpsCacheSize
    \/ \E household_id \in OpsScopes : OpsRetrieverGet(household_id)
    \/ \E household_id \in OpsScopes : OpsRetrieverSet(household_id)
    \/ \E household_id \in OpsScopes : OpsRetrieverInvalidate(household_id)
    \/ \E household_id \in OpsScopes : OpsRetrieverUpdate(household_id)

SpecOps == RcInit /\ [][OpsNext]_vars

ReadCalled(r) ==
    /\ reqs[r].pc = "idle"
    /\ reqs'[r].pc # "idle"
    /\ (IF reqs'[r].pc = "done" THEN finished' ELSE reqs'[r]).op \in ReadOps

\* the listing the data store holds for the key of request q
Listing(q) ==
    ListValue(IF q.op = "get_all"
              THEN select_household_items(pantry_items, q.household_id)
              ELSE select_user_items(pantry_items, q.household_id, q.user_id))

\* C23: a read handler queries the data store exactly when the cache has no
\* unexpired entry under its key; a hit returns the cached listing as it is;
\* a miss stores the fetched listing, empty or not, under the key for 60
\* seconds and returns it.
C23_ReadThroughCache ==
    [][\A r \in Reqs :
           /\ ReadCalled(r) =>
                  LET q == IF reqs'[r].pc = "done" THEN finished' ELSE reqs'[r]
                      key == ReadKey(q)
                  IN  IF IsLive(cache, key, now)
                      THEN /\ q.pc = "done"
                           /\ q.status = "ok"
                           /\ q.events = <<"hit", "return">>
                           /\ q.items = cache[key][1]
                           /\ cache' = cache
                      ELSE /\ q.pc = "fetch"
                           /\ key \notin DOMAIN cache'
           /\ (reqs[r].pc = "fetch" /\ reqs'[r].pc = "fetched") =>
                  reqs'[r].items = Listing(reqs[r])
           /\ ReadStores(r) =>
                  LET key == ReadKey(reqs[r])
                  IN  /\ key \in DOMAIN cache'
                      /\ cache'[key] = <<reqs[r].items, now + PANTRY_LIST_TTL>>
                      /\ finished'.status = "ok"
                      /\ finished'.items = reqs[r].items
                      /\ finished'.events[1] = "fetch"]_vars

\* an empty listing was fetched and stored, and a later request got it from
\* the cache
C23_Witness ==
    /\ finished.op \in ReadOps
    /\ finished.status = "ok"
    /\ finished.events = <<"hit", "return">>
    /\ finished.items = ListValue({})
    /\ cache[ReadKey(finished)] = <<ListValue({}), PANTRY_LIST_TTL>>

----------------------------------------------------------------------------
(* app/services/household_service.py : create_household, with requests in  *)
(* flight at the same time and a join or leave beside them: SpecMembers.   *)
(* The data store checks nothing about household_members rows.             *)

MaxCreates == 2

Creates == 1..MaxCreates

NoCreate ==
    [pc |-> "idle", user_id |-> "", is_personal |-> FALSE, status |-> "",
     error |-> "", household_id |-> ""]

\* households .select(...).eq("owner_id", u).eq("is_personal", True).limit(1)
select_personal_household(table, user_id) ==
    {h \in DOMAIN table : table[h].is_personal /\ table[h].owner_id = user_id}

\* the request raises AppError(error); "" stands for the exception of a
\* data-store call that is not caught
CreateFails(q, error) == [q EXCEPT !.pc = "done", !.status = "error", !.error = error]

CreateReturns(q, household_id) ==
    [q EXCEPT !.pc = "done", !.status = "ok", !.household_id = household_id]

\* create_household, up to its first await
CreateStart(c, user_id, is_personal) ==
    /\ creq[c].pc = "idle"
    /\ c > 1 => creq[c - 1].pc # "idle"
    /\ creq' = [creq EXCEPT ![c] = [NoCreate EXCEPT !.pc = "membership",
                                                    !.user_id = user_id,
                                                    !.is_personal = is_personal]]
    /\ UNCHANGED <<cacheVars, storeVars, reqVars, houseVars, retriever_store,
                   storeVer, retrieved, calls, pantry_state, rcLast, rcSets,
                   rcInvalidated, rcOps, drawn, wrapped>>

createRest == <<cacheVars, pantry_items, pantry_embeddings, reqVars, hreq, moves,
                retriever_store, storeVer, retrieved, calls, pantry_state, rcLast,
                rcSets, rcInvalidated, rcOps, drawn, wrapped>>

CreateMembership_NoCheck(c, ok) ==
    /\ creq[c].pc = "membership"
    /\ LET q == creq[c]
       IN  creq' = [creq EXCEPT ![c] =
                       IF ~ok THEN CreateFails(q, "")
                       ELSE [q EXCEPT !.pc = IF q.is_personal THEN "existing"
                                                               ELSE "insert"]]
    /\ UNCHANGED <<household_members, households, createRest>>

\* the membership of the user: 400 if there is one
CreateMembership(c, ok) ==
    /\ creq[c].pc = "membership"
    /\ LET q == creq[c]
           membership_response == select_membership(household_members, q.user_id)
       IN  creq' = [creq EXCEPT ![c] =
                       IF ~ok THEN CreateFails(q, "")
                       ELSE IF membership_response # {}
                            THEN CreateFails(q, "User is already a member of a household")
                            ELSE [q EXCEPT !.pc = IF q.is_personal THEN "existing"
                                                                    ELSE "insert"]]
    /\ UNCHANGED <<household_members, households, createRest>>

\* is_personal: the personal household the user owns already is returned
CreateExisting(c, ok) ==
    /\ creq[c].pc = "existing"
    /\ LET q == creq[c]
           existing_personal == select_personal_household(households, q.user_id)
       IN  creq' = [creq EXCEPT ![c] =
                       IF ~ok THEN CreateFails(q, "")
                       ELSE IF existing_personal # {}
                            THEN CreateReturns(q, CHOOSE h \in existing_personal : TRUE)
                            ELSE [q EXCEPT !.pc = "insert"]]
    /\ UNCHANGED <<household_members, households, createRest>>

\* the households insert: a row; no data (500); an APIError (500), which for
\* is_personal and a unique violation leads to a second look for the
\* personal household
CreateInsert(c, ok, invite_code) ==
    /\ creq[c].pc = "insert"
    /\ LET q == creq[c]
           taken == select_household_by_invite(households, invite_code) # {}
           id == NewHouseholdId(households)
       IN  IF ok /\ ~taken
           THEN /\ households' = DictPut(households, id,
                                    [invite_code |-> invite_code,
                                     is_personal |-> q.is_personal,
                                     owner_id |-> IF q.is_personal THEN q.user_id
                                                                   ELSE ""])
                /\ creq' = [creq EXCEPT ![c] =
                               IF q.is_personal THEN CreateReturns(q, id)
                               ELSE [q EXCEPT !.pc = "member", !.household_id = id]]
           ELSE /\ UNCHANGED households
                /\ creq' = [creq EXCEPT ![c] =
                               IF taken /\ q.is_personal
                               THEN [q EXCEPT !.pc = "recheck"]
                               ELSE CreateFails(q, "Failed to create household")]
    /\ UNCHANGED <<household_members, createRest>>

\* after a unique violation: the personal household, or 500
CreateRecheck(c, ok) ==
    /\ creq[c].pc = "recheck"
    /\ LET q == creq[c]
           existing == select_personal_household(households, q.user_id)
       IN  creq' = [creq EXCEPT ![c] =
                       IF ~ok THEN CreateFails(q, "")
                       ELSE IF existing # {}
                            THEN CreateReturns(q, CHOOSE h \in existing : TRUE)
                            ELSE CreateFails(q, "Failed to create household")]
    /\ UNCHANGED <<household_members, households, createRest>>

\* not is_personal: the household_members insert, and the response
CreateMember(c, ok) ==
    /\ creq[c].pc = "member"
    /\ LET q == creq[c]
       IN  IF ok
           THEN /\ household_members' =
                       household_members \cup {<<q.user_id, q.household_id>>}
                /\ creq' = [creq EXCEPT ![c] = CreateReturns(q, q.household_id)]
           ELSE /\ UNCHANGED household_members
                /\ creq' = [creq EXCEPT ![c] = CreateFails(q, "")]
    /\ UNCHANGED <<households, createRest>>

CreateSteps ==
    \/ \E c \in Creates, user_id \in Users, is_personal \in BOOLEAN :
           CreateStart(c, user_id, is_personal)
    \/ \E c \in Creates, ok \in BOOLEAN : CreateMembership(c, ok)
    \/ \E c \in Creates, ok \in BOOLEAN : CreateExisting(c, ok)
    \/ \E c \in Creates, ok \in BOOLEAN, invite_code \in GeneratedCodes :
           CreateInsert(c, ok, invite_code)
    \/ \E c \in Creates, ok \in BOOLEAN : CreateRecheck(c, ok)
    \/ \E c \in Creates, ok \in BOOLEAN : CreateMember(c, ok)

\* u1 is in the group household h1 and owns an item there; u2 has signed up
\* and has no membership row yet
MembersInit ==
    /\ now = 0
    /\ ticks = 0
    /\ cache = EmptyDict
    /\ lastSet = EmptyDict
    /\ last = NoOp
    /\ pantry_items = [i \in {1} |->
                          [household_id |-> "h1", owner_id |-> "u1", quantity |-> 1]]
    /\ household_members = {<<"u1", "h1">>}
    /\ pantry_embeddings = {}
    /\ reqs = [r \in Reqs |-> Idle]
    /\ finished = Idle
    /\ seq = 0
    /\ acked = EmptyDict
    /\ entryVer = EmptyDict
    /\ households = InitialHouseholds
    /\ hreq = NoMove
    /\ moves = 0
    /\ retriever_store = EmptyDict
    /\ storeVer = EmptyDict
    /\ retrieved = NoRetrieval
    /\ calls = 0
    /\ pantry_state = EmptyDict
    /\ rcLast = NoRcOp
    /\ rcSets = EmptyDict
    /\ rcInvalidated = EmptyDict
    /\ rcOps = 0
    /\ drawn = <<>>
    /\ wrapped = <<>>
    /\ creq = [c \in Creates |-> NoCreate]

MembersNext ==
    \/ HouseholdSteps
    \/ CreateSteps

SpecMembers == MembersInit /\ [][MembersNext]_vars

\* C24: create_household by a user who has a membership row ends with the
\* error 'User is already a member of a household' (or, when the membership
\* lookup itself raises, with that exception) and inserts no households row
\* and no household_members row.
C24_MemberCannotCreate ==
    [][\A c \in Creates :
           (/\ creq[c].pc = "membership"
            /\ creq'[c] # creq[c]
            /\ select_membership(household_members, creq[c].user_id) # {}) =>
               /\ creq'[c] \in
                      {CreateFails(creq[c], "User is already a member of a household"),
                       CreateFails(creq[c], "")}
               /\ households' = households
               /\ household_members' = household_members
               /\ pantry_items' = pantry_items]_vars

\* u1, a member of h1, has called create_household and got the error; the
\* tables are as they were
C24_Witness ==
    /\ \E c \in Creates :
           /\ creq[c].user_id = "u1"
           /\ creq[c].status = "error"
           /\ creq[c].error = "User is already a member of a household"
    /\ households = InitialHouseholds
    /\ household_members = {<<"u1", "h1">>}

----------------------------------------------------------------------------
(* PantryService called directly: the caller chooses the household and the  *)
(* user, so the user need not be a member of the household                 *)

ServiceOps == {"add", "update", "delete"}

ServiceHouseholds == {"h1", "h2"}

\* a call of add_pantry_item_single / update_pantry_item / delete_pantry_item,
\* up to its first await
ServiceCall(r, op, household_id, user_id, arg) ==
    /\ CanStart(r)
    /\ Goes(r, [Idle EXCEPT !.op = op, !.user_id = user_id,
                            !.household_id = household_id, !.arg = arg,
                            !.pc = IF op = "add" THEN "check" ELSE "mutate"])
    /\ UNCHANGED <<cacheVars, storeVars, seq, acked, entryVer,
                 houseVars, aiVars>>

\* return PantryItemUpsertResponse(...)
ServiceReturn(r) ==
    /\ reqs[r].pc = "return"
    /\ Returns(r, reqs[r], "ok", reqs[r].events \o <<"return">>, 0)
    /\ UNCHANGED <<cacheVars, storeVars, seq, acked, entryVer,
                 houseVars, aiVars>>

ServiceNext ==
    \/ \E r \in Reqs, op \in ServiceOps, household_id \in ServiceHouseholds,
          user_id \in Users :
           \E arg \in WriteArgs(op) : ServiceCall(r, op, household_id, user_id, arg)
    \/ \E r \in Reqs, ok \in BOOLEAN : WriteCheck(r, ok)
    \/ \E r \in Reqs, ok \in BOOLEAN : WriteMutate(r, ok)
    \/ \E r \in Reqs, ok \in BOOLEAN : WriteEmbed(r, ok)
    \/ \E r \in Reqs : ServiceReturn(r)

SpecService == HandlerInit /\ [][ServiceNext]_vars

C28_UpdateChangesOneItem ==
    [][\A r \in Reqs :
           (/\ reqs[r].pc = "mutate"
            /\ reqs[r].op = "update"
            /\ reqs'[r] # reqs[r]
            /\ reqs'[r].pc = "return") =>
               /\ DOMAIN pantry_items' = DOMAIN pantry_items
               /\ Cardinality({i \in DOMAIN pantry_items :
                                   pantry_items'[i] # pantry_items[i]}) <= 1]_vars
----------------------------------------------------------------------------
(* Claims about join_household_by_invite and leave_household, checked      *)
(* under SpecHousehold                                                     *)

\* the pantry items user_id owns in household_id
OwnedIn(items, household_id, user_id) ==
    {i \in DOMAIN items : /\ items[i].household_id = household_id
                          /\ items[i].owner_id = user_id}

\* C26: a join_household_by_invite(code, U) that returns success, from H_old to
\* H_new: its move step puts every item U owned in H_old into H_new with the
\* same owner and leaves every other item as it was, items_moved is the number
\* of items moved, its later steps change no item, and at its return U has
\* exactly one membership row, which points to H_new, and owns no item in H_old.
C26_JoinMovesUserAndItems ==
    [][(hreq.op = "join" /\ hreq' # hreq) =>
          /\ (hreq.pc = "move" /\ hreq'.pc = "unlink") =>
                 /\ DOMAIN pantry_items' = DOMAIN pantry_items
                 /\ \A i \in DOMAIN pantry_items :
                        pantry_items'[i] =
                            IF i \in OwnedIn(pantry_items, hreq.old, hreq.user_id)
                            THEN [pantry_items[i] EXCEPT !.household_id = hreq.new]
                            ELSE pantry_items[i]
                 /\ hreq'.items_moved =
                        Cardinality(OwnedIn(pantry_items, hreq.old, hreq.user_id))
          /\ hreq.pc \in {"unlink", "link"} => pantry_items' = pantry_items
          /\ hreq'.status = "ok" =>
                 /\ {m \in household_members' : m[1] = hreq.user_id} =
                        {<<hreq.user_id, hreq.new>>}
                 /\ {m \in household_members' : m[1] # hreq.user_id} =
                        {m \in household_members : m[1] # hreq.user_id}
                 /\ OwnedIn(pantry_items', hreq.old, hreq.user_id) = {}
                 /\ hreq.new # hreq.old]_vars

\* u1 has joined h2 from h1 and taken the one item along
C26_Witness ==
    /\ hreq.op = "join"
    /\ hreq.status = "ok"
    /\ hreq.user_id = "u1"
    /\ hreq.old = "h1"
    /\ hreq.new = "h2"
    /\ hreq.items_moved = 1
    /\ pantry_items[1].household_id = "h2"
    /\ pantry_items[1].owner_id = "u1"
    /\ pantry_items[2].household_id = "h3"
    /\ household_members = {<<"u1", "h2">>, <<"u2", "h3">>}

\* C27: leave_household makes at most MAX_INVITE_CODE_RETRIES attempts to
\* insert the personal household and goes on to the move at the first one that
\* returns a row; when the fifth attempt fails too the call ends with 'Failed to
\* create personal household'; and no step of the call up to and including the
\* retry loop moves a pantry item or changes a membership row.
C27_LeaveRetriesAtMostFiveTimes ==
    [][(hreq.op = "leave" /\ hreq' # hreq
            /\ hreq.pc \in {"membership", "current", "create"}) =>
          /\ pantry_items' = pantry_items
          /\ household_members' = household_members
          /\ hreq.pc = "create" =>
                 /\ hreq.tries < MAX_INVITE_CODE_RETRIES
                 /\ \/ /\ hreq'.pc = "move"
                       /\ hreq'.tries = hreq.tries
                       /\ hreq'.new \in (DOMAIN households') \ (DOMAIN households)
                    \/ /\ hreq'.tries = hreq.tries + 1
                       /\ households' = households
                       /\ IF hreq'.tries = MAX_INVITE_CODE_RETRIES
                          THEN /\ hreq'.pc = "done"
                               /\ hreq'.status = "error"
                               /\ hreq'.error = "Failed to create personal household"
                          ELSE hreq'.pc = "create"]_vars

\* five inserts have failed: the call has ended with the error, and the items
\* and the memberships are the ones it found
C27_Witness ==
    /\ hreq.op = "leave"
    /\ hreq.user_id = "u1"
    /\ hreq.status = "error"
    /\ hreq.error = "Failed to create personal household"
    /\ hreq.tries = MAX_INVITE_CODE_RETRIES
    /\ households = InitialHouseholds
    /\ pantry_items[1].household_id = "h1"
    /\ household_members = {<<"u1", "h1">>, <<"u2", "h3">>}
----------------------------------------------------------------------------
(* Claims about the household calls running together *)

\* C29: whatever create_household, join_household_by_invite and leave_household
\* calls have run or are running, the same user's concurrent calls included,
\* every user has at most one household_members row.
C29_AtMostOneMembership ==
    \A user_id \in Users :
        Cardinality(select_membership(household_members, user_id)) <= 1

\* C30: a join_household_by_invite or leave_household call that has ended in an
\* error after it had found the user's household has left the user's pantry
\* items and membership as they were: the user owns no item in the household
\* the call was moving to, and still has the membership row of the household
\* the call found the user in.
C30_FailedMoveChangesNothing ==
    (/\ hreq.op \in {"join", "leave"}
     /\ hreq.pc = "done"
     /\ hreq.status = "error"
     /\ hreq.old # "") =>
        /\ OwnedIn(pantry_items, hreq.new, hreq.user_id) = {}
        /\ <<hreq.user_id, hreq.old>> \in household_members
====
